---- MODULE Spec2Model ----
(***************************************************************************)
(* Model of the remote snapshotter (package snapshot) and of the plugin     *)
(* chain it drives.  Every snapshotter call is one action; the results of   *)
(* the environment (plugin Mount/Check outcomes, I/O faults, measured disk  *)
(* usage) are inputs of the action.                                         *)
(***************************************************************************)
EXTENDS Integers, Sequences, FiniteSets, TLC

\* ------------------------------------------------------------------ bounds
MaxID == 3          \* snapshots ever created (bolt sequence cap)
NPlugins == 2       \* len(o.fsChain)
MaxDu == 1          \* largest disk usage fs.DiskUsage reports

\* keys given to Prepare and View, names given to Commit (and, as the value
\* of the target label, to Prepare), parents given to Prepare and View
ActiveKeys == {"k1"}
Names == {"c1", "c2"}
Keys == ActiveKeys \cup Names

targetSnapshotLabel == "containerd.io/snapshot.ref"
filesystemIDLabel == "containerd.io/snapshot/filesystem.id"

KindActive == "Active"
KindView == "View"
KindCommitted == "Committed"

Plugins == 0 .. (NPlugins - 1)

\* error kinds (errdefs); ErrNone is the nil error
ErrNone == "nil"
ErrNotFound == "NotFound"
ErrAlreadyExists == "AlreadyExists"
ErrInvalidArgument == "InvalidArgument"
ErrFailedPrecondition == "FailedPrecondition"
ErrUnavailable == "Unavailable"
ErrIO == "IO"

\* the snapshotter: its configuration, the metadata store, the bolt sequence,
\* the entries of snapshots/, the FUSE mounts under snapshots/ and the result
\* of the call in progress
VARIABLES asyncRemove, store, seq, dirs, fuse, ret

\* one stargz filesystem plugin: its configuration and layerValidInterval,
\* the transport cache, the connection map, the mountpoints its FUSE servers
\* serve, the wall clock, the transports created so far and the result of
\* the call in progress
VARIABLES config, layerValidInterval, pullTransports, conn, served, clock, trSeq, fsret

\* one mounted layer: the TOC of the layer, the node the kernel is at and
\* the result of the call in progress
VARIABLES toc, node, nret

\* the URL reader of one mounted layer, its chunk cache and its state file
VARIABLES rcfg, httpCache, ur, statJSON, rd, rhist

\* the calls in progress in the plugin, the connection-map lock and the
\* background task manager; noprefetch is the plugin's configuration
VARIABLES th, connMu, tconn, btm, bg, noprefetch

\* the source providers handed to sources() and the result of the call of
\* the combined provider
VARIABLES ps, sret

\* a layer converter: the function that built it, the options of its caller,
\* the variable opts its closure captured, its invocations, the option lists
\* handed to estargz.Build and the number of invocations so far
VARIABLES convKind, callerOpts, opts, cv, built, ninv

snapVars == <<asyncRemove, store, seq, dirs, fuse, ret>>

fsVars == <<config, layerValidInterval, pullTransports, conn, served, clock, trSeq, fsret>>

nodeVars == <<toc, node, nret>>

rdVars == <<rcfg, httpCache, ur, statJSON, rd, rhist>>

taskVars == <<th, connMu, tconn, btm, bg, noprefetch>>

libVars == <<ps, sret, convKind, callerOpts, opts, cv, built, ninv>>

\* what a snapshotter call leaves alone
plugVars == <<fsVars, nodeVars, rdVars, taskVars, libVars>>

vars == <<snapVars, fsVars, nodeVars, rdVars, taskVars, libVars>>

\* ------------------------------------------------------- strings and paths
DigitChars == <<"0", "1", "2", "3", "4", "5", "6", "7", "8", "9">>

IsDigit(c) == \E d \in 1 .. 10 : DigitChars[d] = c

DigitVal(c) == (CHOOSE d \in 1 .. 10 : DigitChars[d] = c) - 1

RECURSIVE ParseDigits(_)
ParseDigits(s) ==
  IF s = <<>> THEN 0
  ELSE 10 * ParseDigits(SubSeq(s, 1, Len(s) - 1)) + DigitVal(s[Len(s)])

\* strconv.ParseInt(s, 10, 64) on a string given as its characters
ParseInt(s) ==
  IF s = <<>> THEN [ok |-> FALSE, val |-> 0]
  ELSE LET neg == s[1] = "-"
           body == IF s[1] \in {"+", "-"} THEN Tail(s) ELSE s
       IN IF body = <<>> \/ \E i \in 1 .. Len(body) : ~IsDigit(body[i])
          THEN [ok |-> FALSE, val |-> 0]
          ELSE [ok |-> TRUE,
                val |-> IF neg THEN 0 - ParseDigits(body) ELSE ParseDigits(body)]

RECURSIVE FormatInt(_)
\* fmt.Sprintf("%d", n) for n >= 0, as characters
FormatInt(n) ==
  IF n < 10 THEN <<DigitChars[n + 1]>>
  ELSE FormatInt(n \div 10) \o <<DigitChars[(n % 10) + 1]>>

\* o.root and filepath.Join(o.root, "snapshots")
root == "/var/lib/remote"

snapshotDir == root \o "/snapshots"

DirPath(name) == snapshotDir \o "/" \o name

upperPath(id) == DirPath(id) \o "/fs"

workPath(id) == DirPath(id) \o "/work"

IDString(n) == ToString(n)

TempDir == "new-0"

RECURSIVE Join(_, _)
\* strings.Join
Join(elems, sep) ==
  IF elems = <<>> THEN ""
  ELSE IF Len(elems) = 1 THEN elems[1]
  ELSE elems[1] \o sep \o Join(Tail(elems), sep)

\* ------------------------------------------------------------ label inputs
NoLabels == [l \in {} |-> ""]

WithLabel(labels, k, v) == [l \in DOMAIN labels \cup {k} |-> IF l = k THEN v ELSE labels[l]]

\* labels given to Prepare
PrepareLabels ==
  {NoLabels} \cup {WithLabel(NoLabels, targetSnapshotLabel, t) : t \in Names}

\* labels given to View
ViewLabels ==
  {NoLabels}
  \cup {WithLabel(NoLabels, filesystemIDLabel, f) : f \in {FormatInt(NPlugins), <<"-", "1">>}}

\* labels given to Commit
CommitLabels == {NoLabels, WithLabel(NoLabels, filesystemIDLabel, <<"x">>)}

\* ------------------------------------------------------------------ storage
IDs(st) == {IDString(st[k].id) : k \in DOMAIN st}

RECURSIVE parents_FarthestFirst(_, _)
\* the chain listed from the base layer up
parents_FarthestFirst(st, key) ==
  IF key = "" THEN <<>>
  ELSE parents_FarthestFirst(st, st[key].parent) \o <<IDString(st[key].id)>>

RECURSIVE parents(_, _)
\* storage.parents: ids of the chain starting at key, nearest first
parents(st, key) ==
  IF key = "" THEN <<>>
  ELSE <<IDString(st[key].id)>> \o parents(st, st[key].parent)

RECURSIVE Chain(_, _)
Chain(st, key) ==
  IF key = "" \/ key \notin DOMAIN st THEN <<>>
  ELSE <<key>> \o Chain(st, st[key].parent)

\* storage.GetSnapshot
GetSnapshot(st, key) ==
  [ID |-> IDString(st[key].id), Kind |-> st[key].kind,
   ParentIDs |-> parents(st, st[key].parent)]

\* storage.CreateSnapshot: error or the store with the new record
CreateSnapshotErr(st, key, parent) ==
  IF parent # "" /\ parent \notin DOMAIN st THEN ErrNotFound
  ELSE IF parent # "" /\ st[parent].kind # KindCommitted THEN ErrInvalidArgument
  ELSE IF key \in DOMAIN st THEN ErrAlreadyExists
  ELSE ErrNone

CreateSnapshot(st, id, kind, key, parent, labels) ==
  [k \in DOMAIN st \cup {key} |->
     IF k = key
     THEN [id |-> id, kind |-> kind, parent |-> parent, labels |-> labels, usage |-> 0]
     ELSE st[k]]

\* storage.CommitActive
CommitActiveErr(st, key, name) ==
  IF name \in DOMAIN st THEN ErrAlreadyExists
  ELSE IF key \notin DOMAIN st THEN ErrNotFound
  ELSE IF st[key].kind # KindActive THEN ErrInvalidArgument
  ELSE ErrNone

CommitActive(st, key, name, usage, labels) ==
  [k \in (DOMAIN st \ {key}) \cup {name} |->
     IF k = name
     THEN [id |-> st[key].id, kind |-> KindCommitted, parent |-> st[key].parent,
           labels |-> labels, usage |-> usage]
     ELSE st[k]]

\* storage.Remove
storageRemoveErr(st, key) ==
  IF key \notin DOMAIN st THEN ErrNotFound
  ELSE IF \E c \in DOMAIN st : st[c].parent = key THEN ErrFailedPrecondition
  ELSE ErrNone

storageRemove(st, key) == [k \in DOMAIN st \ {key} |-> st[k]]

\* ------------------------------------------------------------ plugin chain
\* fsChain[fsid].Check(mountpoint): fails for a mountpoint the plugin has no
\* connection record of, that is one it has not mounted (f: the plugin mounts
\* in place); otherwise the probe decides (okSet: the mountpoints whose probe
\* succeeds now).
Check(f, fsid, mountpoint, okSet) == <<fsid, mountpoint>> \in f /\ mountpoint \in okSet

\* a check that looks at the snapshot's own layer only
checkAvailability_OwnLayerOnly(st, cn, key, okSet) ==
  IF key \notin DOMAIN st THEN FALSE
  ELSE LET info == st[key]
           id == IDString(info.id)
       IN IF filesystemIDLabel \notin DOMAIN info.labels THEN TRUE
          ELSE LET fsid == ParseInt(info.labels[filesystemIDLabel])
               IN IF ~fsid.ok THEN FALSE
                  ELSE IF fsid.val < 0 \/ fsid.val >= NPlugins THEN FALSE
                  ELSE Check(cn, fsid.val, upperPath(id), okSet)

RECURSIVE checkAvailability(_, _, _, _)
checkAvailability(st, cn, key, okSet) ==
  IF key \notin DOMAIN st THEN FALSE
  ELSE LET info == st[key]
           id == IDString(info.id)
       IN IF info.parent # "" /\ ~checkAvailability(st, cn, info.parent, okSet) THEN FALSE
          ELSE IF filesystemIDLabel \notin DOMAIN info.labels THEN TRUE
          ELSE LET fsid == ParseInt(info.labels[filesystemIDLabel])
               IN IF ~fsid.ok THEN FALSE
                  ELSE IF fsid.val < 0 \/ fsid.val >= NPlugins THEN FALSE
                  ELSE Check(cn, fsid.val, upperPath(id), okSet)

\* ------------------------------------------------------------------ mounts
\* mounts that hands out the overlay of an unavailable chain
mounts_Unchecked(st, cn, s, checkKey, okSet) ==
  [err |-> ErrNone,
   m |-> <<[Type |-> "overlay", Source |-> "overlay",
            Options |-> <<"lowerdir=" \o Join([i \in 1 .. Len(s.ParentIDs) |->
                                                upperPath(s.ParentIDs[i])], ":")>>]>>]

\* o.mounts: the availability check of checkKey, then the mount of s
mounts(st, cn, s, checkKey, okSet) ==
  IF checkKey # "" /\ ~checkAvailability(st, cn, checkKey, okSet)
  THEN [err |-> ErrUnavailable, m |-> <<>>]
  ELSE IF Len(s.ParentIDs) = 0
  THEN [err |-> ErrNone,
        m |-> <<[Type |-> "bind", Source |-> upperPath(s.ID),
                 Options |-> <<IF s.Kind = KindView THEN "ro" ELSE "rw", "rbind">>]>>]
  ELSE IF s.Kind # KindActive /\ Len(s.ParentIDs) = 1
  THEN [err |-> ErrNone,
        m |-> <<[Type |-> "bind", Source |-> upperPath(s.ParentIDs[1]),
                 Options |-> <<"ro", "rbind">>]>>]
  ELSE LET options == IF s.Kind = KindActive
                      THEN <<"workdir=" \o workPath(s.ID), "upperdir=" \o upperPath(s.ID)>>
                      ELSE <<>>
           parentPaths == [i \in 1 .. Len(s.ParentIDs) |-> upperPath(s.ParentIDs[i])]
       IN [err |-> ErrNone,
           m |-> <<[Type |-> "overlay", Source |-> "overlay",
                    Options |-> options \o <<"lowerdir=" \o Join(parentPaths, ":")>>]>>]

\* ------------------------------------------------- directories on disk
\* o.cleanupSnapshotDirectory applied to every directory of names: unmount
\* <dir>/fs (a FUSE mount there goes away and its OnUnmount drops the
\* connection record), then RemoveAll, which fails for the names in rmfail.
MountpointsOf(names) == {upperPath(n) : n \in names}

cleanupDirs(d, names, rmfail) == d \ (names \ rmfail)

cleanupFuse(f, names) == {e \in f : e[2] \notin MountpointsOf(names)}

\* a listing that takes every entry of snapshots/ for an orphan
getCleanupDirectories_All(st, d) == d

\* o.getCleanupDirectories: entries of snapshots/ that are no snapshot id
getCleanupDirectories(st, d) == {n \in d : n \notin IDs(st)}

\* ------------------------------------------------------------- result record
\* What the last call did and returned; "idle" when no result is pending.
R0 ==
  [op |-> "idle", key |-> "", parent |-> "", name |-> "", target |-> "",
   err |-> ErrNone, m |-> <<>>, id |-> "",
   tried |-> FALSE, calls |-> <<>>, outs |-> <<>>, fsid |-> 0 - 1, cerr |-> ErrNone,
   walked |-> FALSE, usage |-> 0,
   checked |-> FALSE, avail |-> TRUE, okSet |-> {},
   unmounts |-> {}, removes |-> {}]

Faults == {"none", "prepareDirectory", "rename", "commit"}

\* -------------------------------------------------------------- createSnapshot
\* Result of o.createSnapshot: the error, the mounts and the state it leaves.
\* rmf: the RemoveAll of the deferred cleanup of the snapshot directory fails.
createSnapshot(kind, key, parent, labels, fault, rmf, okSet) ==
  LET cerr == CreateSnapshotErr(store, key, parent)
      id == seq + 1
      ids == IDString(id)
      st1 == CreateSnapshot(store, id, kind, key, parent, labels)
      s == GetSnapshot(st1, key)
      failed(e) == [err |-> e, m |-> <<>>, store |-> store, seq |-> seq, dirs |-> dirs,
                    id |-> "", checked |-> FALSE, avail |-> TRUE,
                    unmounts |-> {upperPath(TempDir)}, removes |-> {TempDir}]
  IN IF fault = "prepareDirectory" THEN failed(ErrIO)
     ELSE IF cerr # ErrNone THEN failed(cerr)
     ELSE IF Len(s.ParentIDs) > 0 /\ s.ParentIDs[1] \notin dirs THEN failed(ErrIO)
     ELSE IF fault = "rename" \/ ids \in dirs THEN failed(ErrIO)
     ELSE IF fault = "commit"
     THEN [err |-> ErrIO, m |-> <<>>, store |-> store, seq |-> seq,
           dirs |-> IF rmf THEN dirs \cup {ids} ELSE dirs,
           id |-> "", checked |-> FALSE, avail |-> TRUE,
           unmounts |-> {upperPath(ids)}, removes |-> {ids}]
     ELSE LET r == mounts(st1, fuse, s, parent, okSet)
              av == parent = "" \/ checkAvailability(st1, fuse, parent, okSet)
          IN IF r.err # ErrNone
             THEN [err |-> r.err, m |-> <<>>, store |-> st1, seq |-> id,
                   dirs |-> IF rmf THEN dirs \cup {ids} ELSE dirs,
                   id |-> ids, checked |-> parent # "", avail |-> av,
                   unmounts |-> {upperPath(ids)}, removes |-> {ids}]
             ELSE [err |-> ErrNone, m |-> r.m, store |-> st1, seq |-> id,
                   dirs |-> dirs \cup {ids},
                   id |-> ids, checked |-> parent # "", avail |-> av,
                   unmounts |-> {}, removes |-> {}]

\* the mountpoints whose probe result the availability check of key can ask
\* for: the fs directories of the chain of key that a plugin has mounted
ChainMountpoints(st, key) ==
  LET c == Chain(st, key)
  IN {mp \in {upperPath(IDString(st[c[i]].id)) : i \in 1 .. Len(c)} :
        \E p \in Plugins : <<p, mp>> \in fuse}

\* --------------------------------------------------------- prepareRemoteSnapshot
MountOutcomes == BOOLEAN

\* a loop that keeps calling Mount after a success and returns the last one
MountLoop_NoStop(outs, i) ==
  LET ok == {p \in Plugins : outs[p + 1]}
  IN [fsid |-> IF ok = {} THEN 0 - 1 ELSE CHOOSE p \in ok : \A q \in ok : q <= p,
      calls |-> [j \in 1 .. NPlugins |-> j - 1]]

RECURSIVE MountLoop(_, _)
\* the loop over o.fsChain from index i: outs[i + 1] tells whether plugin i's
\* Mount succeeds; calls lists the plugins whose Mount is called, in order
MountLoop(outs, i) ==
  IF i >= NPlugins THEN [fsid |-> 0 - 1, calls |-> <<>>]
  ELSE IF outs[i + 1] THEN [fsid |-> i, calls |-> <<i>>]
  ELSE LET r == MountLoop(outs, i + 1)
       IN [fsid |-> r.fsid, calls |-> <<i>> \o r.calls]

prepareRemoteSnapshot(outs) == MountLoop(outs, 0)

\* the stamp written with an off-by-one (one-based) index
stampFilesystemID_OneBased(labels, fsid) ==
  WithLabel(labels, filesystemIDLabel, FormatInt(fsid + 1))

\* base.Labels[filesystemIDLabel] = fmt.Sprintf("%d", fsid)
stampFilesystemID(labels, fsid) == WithLabel(labels, filesystemIDLabel, FormatInt(fsid))

\* the remote failure surfaced instead of falling back
fallback_Surfaced(m) == [err |-> ErrIO, m |-> <<>>]

\* "return m, nil // fallback to the normal behavior"
fallback(m) == [err |-> ErrNone, m |-> m]

\* ------------------------------------------------------------------- Commit
\* a Commit that walks the upper directory of every snapshot
commit_AlwaysWalk(st, d, name, key, labels, du, fault) ==
  IF key \notin DOMAIN st
  THEN [err |-> ErrNotFound, store |-> st, walked |-> FALSE, usage |-> 0]
  ELSE LET cerr == CommitActiveErr(st, key, name)
       IN IF IDString(st[key].id) \notin d
          THEN [err |-> ErrIO, store |-> st, walked |-> TRUE, usage |-> 0]
          ELSE IF cerr # ErrNone
          THEN [err |-> cerr, store |-> st, walked |-> TRUE, usage |-> du]
          ELSE IF fault = "commit"
          THEN [err |-> ErrIO, store |-> st, walked |-> TRUE, usage |-> du]
          ELSE [err |-> ErrNone, store |-> CommitActive(st, key, name, du, labels),
                walked |-> TRUE, usage |-> du]

\* Result of o.Commit on store st with directories d; du is what fs.DiskUsage
\* measures when it walks the upper directory
commit(st, d, name, key, labels, du, fault) ==
  IF key \notin DOMAIN st
  THEN [err |-> ErrNotFound, store |-> st, walked |-> FALSE, usage |-> 0]
  ELSE LET info == st[key]
           walk == targetSnapshotLabel \notin DOMAIN info.labels
           usage == IF walk THEN du ELSE 0
           cerr == CommitActiveErr(st, key, name)
       IN IF walk /\ IDString(info.id) \notin d
          THEN [err |-> ErrIO, store |-> st, walked |-> TRUE, usage |-> 0]
          ELSE IF cerr # ErrNone
          THEN [err |-> cerr, store |-> st, walked |-> walk, usage |-> usage]
          ELSE IF fault = "commit"
          THEN [err |-> ErrIO, store |-> st, walked |-> walk, usage |-> usage]
          ELSE [err |-> ErrNone, store |-> CommitActive(st, key, name, usage, labels),
                walked |-> walk, usage |-> usage]

\* ------------------------------------------------------------------- Remove
\* a Remove that collects the orphan directories whatever asyncRemove says
remove_IgnoreAsync(async, st, d, f, key, fault, rmfail) ==
  LET rerr == storageRemoveErr(st, key)
      st1 == storageRemove(st, key)
      removals == getCleanupDirectories(st1, d)
      same(e) == [err |-> e, store |-> st, dirs |-> d, fuse |-> f,
                  unmounts |-> {}, removes |-> {}]
  IN IF rerr # ErrNone THEN same(rerr)
     ELSE IF fault # "none" THEN same(ErrIO)
     ELSE [err |-> ErrNone, store |-> st1,
           dirs |-> cleanupDirs(d, removals, rmfail),
           fuse |-> cleanupFuse(f, removals),
           unmounts |-> MountpointsOf(removals), removes |-> removals]

\* a Remove that deletes the directories before the transaction commits
remove_CleanupFirst(async, st, d, f, key, fault, rmfail) ==
  LET rerr == storageRemoveErr(st, key)
      st1 == storageRemove(st, key)
      removals == IF async THEN {} ELSE getCleanupDirectories(st1, d)
      same(e) == [err |-> e, store |-> st, dirs |-> d, fuse |-> f,
                  unmounts |-> {}, removes |-> {}]
  IN IF rerr # ErrNone THEN same(rerr)
     ELSE IF ~async /\ fault = "readdir" THEN same(ErrIO)
     ELSE [err |-> IF fault = "commit" THEN ErrIO ELSE ErrNone,
           store |-> IF fault = "commit" THEN st ELSE st1,
           dirs |-> cleanupDirs(d, removals, rmfail),
           fuse |-> cleanupFuse(f, removals),
           unmounts |-> MountpointsOf(removals), removes |-> removals]

\* Result of o.Remove.  fault: getCleanupDirectories ("readdir") or the
\* transaction commit ("commit") fails; rmfail: the directories whose
\* RemoveAll fails.
remove(async, st, d, f, key, fault, rmfail) ==
  LET rerr == storageRemoveErr(st, key)
      st1 == storageRemove(st, key)
      removals == IF async THEN {} ELSE getCleanupDirectories(st1, d)
      same(e) == [err |-> e, store |-> st, dirs |-> d, fuse |-> f,
                  unmounts |-> {}, removes |-> {}]
  IN IF rerr # ErrNone THEN same(rerr)
     ELSE IF ~async /\ fault = "readdir" THEN same(ErrIO)
     ELSE IF fault = "commit" THEN same(ErrIO)
     ELSE [err |-> ErrNone, store |-> st1,
           dirs |-> cleanupDirs(d, removals, rmfail),
           fuse |-> cleanupFuse(f, removals),
           unmounts |-> MountpointsOf(removals), removes |-> removals]

\* ================================================ the stargz filesystem
MaxClock == 60      \* seconds the wall clock runs
MaxTr == 2          \* transports refreshTransport creates

defaultLayerValidInterval == 60

Mountpoints == {"mp1", "mp2"}

\* nameref.Name() of the references given to Mount
Refs == {"ref1"}

\* values of config.LayerValidInterval, in seconds
Configs == {0 - 1, 0, 30}

\* seconds that pass between two calls
TickSteps == {29, 30}

FsErr == "error"

\* a zero configuration taken for "check every time"
NewFilesystem_ZeroMeansAlways(cfg) == IF cfg <= 0 THEN 0 ELSE cfg

\* interval := config.LayerValidInterval, zero and negative values replaced
NewFilesystem(cfg) ==
  IF cfg = 0 THEN defaultLayerValidInterval
  ELSE IF cfg < 0 THEN 0
  ELSE cfg

\* what tr.RoundTrip gives: a transport error, or a response with its status
\* and Location header
Statuses == {200, 206, 302, 404}

Locations == {"", "redirected", "unparseable"}

RoundTripError == [err |-> TRUE, status |-> 0, location |-> ""]

RoundTrips ==
  {RoundTripError}
  \cup {[err |-> FALSE, status |-> st, location |-> ""] : st \in Statuses}
  \cup {[err |-> FALSE, status |-> 302, location |-> l] : l \in Locations}

\* the URL resolve builds from the reference and the digest
BlobURL == "blob"

\* http.NewRequest fails on a URL that does not parse
NewRequestOK(url) == url # "unparseable"

checkAndRedirect(url, rt) ==
  IF ~NewRequestOK(url) THEN [err |-> FsErr, url |-> "", sent |-> FALSE]
  ELSE IF rt.err \/ rt.status >= 400 THEN [err |-> FsErr, url |-> "", sent |-> TRUE]
  ELSE IF rt.location # "" /\ rt.status \div 100 = 3
  THEN [err |-> ErrNone, url |-> rt.location, sent |-> TRUE]
  ELSE [err |-> ErrNone, url |-> url, sent |-> TRUE]

\* fs.resolve on the transport cache pt.  parseOK: the reference parses;
\* rtCached, rtFresh: what the probe of the cached and of the fresh
\* transport gives; refreshOK: refreshTransport succeeds, giving transport
\* fresh.  probes lists the transports probed, failed those whose probe
\* failed.
resolve(pt, ref, parseOK, rtCached, refreshOK, rtFresh, fresh) ==
  LET cached == ref \in DOMAIN pt
      r1 == checkAndRedirect(BlobURL, rtCached)
      r2 == checkAndRedirect(BlobURL, rtFresh)
      p1 == IF cached THEN <<pt[ref]>> ELSE <<>>
      f1 == IF cached THEN {pt[ref]} ELSE {}
      fail(p, f, n) == [err |-> FsErr, url |-> "", tr |-> 0, pullTransports |-> pt,
                        probes |-> p, failed |-> f, refreshed |-> n]
  IN IF ~parseOK THEN fail(<<>>, {}, FALSE)
     ELSE IF cached /\ r1.err = ErrNone
     THEN [err |-> ErrNone, url |-> r1.url, tr |-> pt[ref], pullTransports |-> pt,
           probes |-> p1, failed |-> {}, refreshed |-> FALSE]
     ELSE IF ~refreshOK THEN fail(p1, f1, FALSE)
     ELSE IF r2.err # ErrNone THEN fail(p1 \o <<fresh>>, f1 \cup {fresh}, TRUE)
     ELSE [err |-> ErrNone, url |-> r2.url, tr |-> fresh,
           pullTransports |-> (ref :> fresh) @@ pt,
           probes |-> p1 \o <<fresh>>, failed |-> f1, refreshed |-> TRUE]

\* fs.Mount after the labels are read: rs is resolve's result, nw the time,
\* lateOK whether getSize, stargz.Open, the prefetch and the FUSE server all
\* succeed.  The connection record is written before any of them runs.
mount(cn, sv, mountpoint, hasLabels, rs, nw, lateOK) ==
  IF ~hasLabels \/ rs.err # ErrNone THEN [err |-> FsErr, conn |-> cn, served |-> sv]
  ELSE LET cn1 == (mountpoint :> [url |-> rs.url, tr |-> rs.tr, lastCheck |-> nw]) @@ cn
       IN IF ~NewRequestOK(rs.url) \/ ~lateOK
          THEN [err |-> FsErr, conn |-> cn1, served |-> sv]
          ELSE [err |-> ErrNone, conn |-> cn1, served |-> sv \cup {mountpoint}]

\* a Check that takes every status below 400 for a success
check_AcceptRedirect(cn, mountpoint, nw, interval, rt) ==
  IF mountpoint \notin DOMAIN cn
  THEN [err |-> FsErr, conn |-> cn, expired |-> FALSE, sent |-> FALSE]
  ELSE LET c == cn[mountpoint]
           cn1 == [cn EXCEPT ![mountpoint].lastCheck = nw]
       IN IF nw - c.lastCheck < interval
          THEN [err |-> ErrNone, conn |-> cn, expired |-> FALSE, sent |-> FALSE]
          ELSE IF ~NewRequestOK(c.url)
          THEN [err |-> FsErr, conn |-> cn1, expired |-> TRUE, sent |-> FALSE]
          ELSE IF rt.err \/ rt.status >= 400
          THEN [err |-> FsErr, conn |-> cn1, expired |-> TRUE, sent |-> TRUE]
          ELSE [err |-> ErrNone, conn |-> cn1, expired |-> TRUE, sent |-> TRUE]

\* fs.Check at time nw; rt is what c.tr.RoundTrip gives.  expired: the
\* validity interval has passed; sent: the request went to the transport.
check(cn, mountpoint, nw, interval, rt) ==
  IF mountpoint \notin DOMAIN cn
  THEN [err |-> FsErr, conn |-> cn, expired |-> FALSE, sent |-> FALSE]
  ELSE LET c == cn[mountpoint]
           cn1 == [cn EXCEPT ![mountpoint].lastCheck = nw]
       IN IF nw - c.lastCheck < interval
          THEN [err |-> ErrNone, conn |-> cn, expired |-> FALSE, sent |-> FALSE]
          ELSE IF ~NewRequestOK(c.url)
          THEN [err |-> FsErr, conn |-> cn1, expired |-> TRUE, sent |-> FALSE]
          ELSE IF rt.err
          THEN [err |-> FsErr, conn |-> cn1, expired |-> TRUE, sent |-> TRUE]
          ELSE IF rt.status # 200 /\ rt.status # 206
          THEN [err |-> FsErr, conn |-> cn1, expired |-> TRUE, sent |-> TRUE]
          ELSE [err |-> ErrNone, conn |-> cn1, expired |-> TRUE, sent |-> TRUE]

\* an unmount that forgets every connection
onUnmount_All(cn, mountpoint) == [m \in {} |-> 0]

\* delete(n.fs.conn, n.root)
onUnmount(cn, mountpoint) == [m \in DOMAIN cn \ {mountpoint} |-> cn[m]]

\* What the last plugin call did and returned; "idle" when none is pending.
FR0 ==
  [op |-> "idle", mountpoint |-> "", err |-> ErrNone, expired |-> FALSE, sent |-> FALSE,
   rt |-> RoundTripError, resolved |-> FALSE, probes |-> <<>>, failed |-> {}]

\* the plugin before any call, with configuration cfg
FsStart(cfg) ==
  /\ config = cfg
  /\ layerValidInterval = NewFilesystem(cfg)
  /\ pullTransports = [r \in {} |-> 0]
  /\ conn = [m \in {} |-> 0]
  /\ served = {}
  /\ clock = 0
  /\ trSeq = 0
  /\ fsret = FR0

\* ====================================================== a mounted layer
\* File names are sequences of pieces: the whiteout prefix is one piece, so
\* strings.HasPrefix(name, whiteoutPrefix) looks at the first piece and
\* name[len(whiteoutPrefix):] is the rest.
whiteoutPrefix == ".wh."

PrefetchLandmark == <<".prefetch.landmark">>

whiteoutOpaqueDir == <<whiteoutPrefix, whiteoutPrefix, ".opq">>

opaqueXattr == "trusted.overlay.opaque"

opaqueXattrValue == "y"

stateDirName == <<".stargz-snapshotter">>

\* s.statFile.name: digest + ".json"
statFileName == <<"digest.json">>

\* the subdirectory every layer of the model has under its root
DirName == <<"d">>

HasPrefix(name, prefix) == name # <<>> /\ name[1] = prefix

TrimPrefix(name) == Tail(name)

\* the other children the root and the subdirectory can have in the TOC
RootNames ==
  {<<"a">>, <<whiteoutPrefix, "a">>, <<whiteoutPrefix, "b">>, whiteoutOpaqueDir,
   PrefetchLandmark, <<whiteoutPrefix, whiteoutPrefix, "a">>, stateDirName}

DNames == {<<"a">>, <<whiteoutPrefix, "a">>, whiteoutOpaqueDir}

\* owner, permission bits and xattrs the entries of a layer carry
EntryAttrs ==
  {[Uid |-> 1000, Gid |-> 1000, perm |-> 0, Xattrs |-> [x \in {} |-> ""]],
   [Uid |-> 1000, Gid |-> 2000, perm |-> 488, Xattrs |-> [x \in {"user.x"} |-> "v"]],
   [Uid |-> 0, Gid |-> 1000, perm |-> 4, Xattrs |-> [x \in {opaqueXattr} |-> "n"]]}

TOCs == [rootChildren : SUBSET RootNames, dChildren : SUBSET DNames, attr : EntryAttrs]

\* TOCEntry.Name of the child base of the directory named path
EntryName(path, base) ==
  IF path = "" THEN Join(base, "") ELSE path \o "/" \o Join(base, "")

\* ce.Stat().IsDir()
IsDir(path) == path \in {"", "d"}

\* the base names e.ForeachChild visits, e.LookupChild finds
Children(tc, path) ==
  IF path = "" THEN tc.rootChildren \cup {DirName}
  ELSE IF path = "d" THEN tc.dChildren
  ELSE {}

\* the nodes of a mount: kind "node" is a TOC entry's node
NoNode == [kind |-> "none", e |-> "", opaque |-> FALSE]

\* the node Mount hands to the FUSE connector
RootNode == [kind |-> "node", e |-> "", opaque |-> FALSE]

StateNode == [kind |-> "state", e |-> "", opaque |-> FALSE]

StatFileNode == [kind |-> "statFile", e |-> "", opaque |-> FALSE]

\* the names a listing can show, in the order of their strings
NameOrder ==
  <<stateDirName, <<whiteoutPrefix, "a">>, <<"a">>, <<"b">>, DirName, statFileName>>

NameRank(name) == CHOOSE i \in 1 .. Len(NameOrder) : NameOrder[i] = name

RECURSIVE SortedByName(_)
\* the orders sort.Slice can leave the entries in
SortedByName(ents) ==
  IF ents = {} THEN {<<>>}
  ELSE UNION {{<<e>> \o t : t \in SortedByName(ents \ {e})} :
                e \in {x \in ents : \A y \in ents : NameRank(x.Name) <= NameRank(y.Name)}}

\* node.OpenDir with a whiteout emitted whether or not a sibling has its name
openDir_AlwaysWhiteout(tc, n) ==
  LET ch == {b \in Children(tc, n.e) : ~(n.e = "" /\ b = PrefetchLandmark)}
      normalEnts == {b \in ch : ~HasPrefix(b, whiteoutPrefix)}
      whiteouts == {b \in ch : HasPrefix(b, whiteoutPrefix) /\ b # whiteoutOpaqueDir}
  IN {[Name |-> b, Mode |-> IF IsDir(EntryName(n.e, b)) THEN "dir" ELSE "reg",
       Ino |-> EntryName(n.e, b)] : b \in normalEnts}
     \cup {[Name |-> TrimPrefix(w), Mode |-> "chr", Ino |-> EntryName(n.e, w)] :
             w \in whiteouts}
     \cup (IF n.e = "" THEN {[Name |-> stateDirName, Mode |-> "dir", Ino |-> "state"]}
           ELSE {})

\* node.OpenDir before the sort
openDir(tc, n) ==
  LET ch == {b \in Children(tc, n.e) : ~(n.e = "" /\ b = PrefetchLandmark)}
      normalEnts == {b \in ch : ~HasPrefix(b, whiteoutPrefix)}
      whiteouts == {b \in ch : HasPrefix(b, whiteoutPrefix) /\ b # whiteoutOpaqueDir}
  IN {[Name |-> b, Mode |-> IF IsDir(EntryName(n.e, b)) THEN "dir" ELSE "reg",
       Ino |-> EntryName(n.e, b)] : b \in normalEnts}
     \cup {[Name |-> TrimPrefix(w), Mode |-> "chr", Ino |-> EntryName(n.e, w)] :
             w \in {x \in whiteouts : TrimPrefix(x) \notin normalEnts}}
     \cup (IF n.e = "" THEN {[Name |-> stateDirName, Mode |-> "dir", Ino |-> "state"]}
           ELSE {})

\* state.OpenDir
stateOpenDir == {[Name |-> statFileName, Mode |-> "reg", Ino |-> "statFile"]}

\* node.Lookup of a name the inode has no child for yet
lookup(tc, n, name) ==
  LET enoent == [status |-> "ENOENT", child |-> NoNode]
  IN IF n.e = "" /\ name = PrefetchLandmark THEN enoent
     ELSE IF HasPrefix(name, whiteoutPrefix) THEN enoent
     ELSE IF n.e = "" /\ name = stateDirName THEN [status |-> "OK", child |-> StateNode]
     ELSE IF name \notin Children(tc, n.e)
     THEN IF <<whiteoutPrefix>> \o name \in Children(tc, n.e)
          THEN [status |-> "OK",
                child |-> [kind |-> "whiteout",
                           e |-> EntryName(n.e, <<whiteoutPrefix>> \o name),
                           opaque |-> FALSE]]
          ELSE enoent
     ELSE [status |-> "OK",
           child |-> [kind |-> "node", e |-> EntryName(n.e, name),
                      opaque |-> whiteoutOpaqueDir \in Children(tc, EntryName(n.e, name))]]

\* state.Lookup of a name the inode has no child for yet
stateLookup(name) ==
  IF name # statFileName THEN [status |-> "ENOENT", child |-> NoNode]
  ELSE [status |-> "OK", child |-> StatFileNode]

\* node.GetXAttr
getXAttr(tc, n, attribute) ==
  IF attribute = opaqueXattr /\ n.opaque THEN [status |-> "OK", value |-> opaqueXattrValue]
  ELSE IF attribute \in DOMAIN tc.attr.Xattrs
  THEN [status |-> "OK", value |-> tc.attr.Xattrs[attribute]]
  ELSE [status |-> "ENOATTR", value |-> ""]

\* the keys of a map in one of the orders a range loop can take them
RECURSIVE KeysInOrder(_)
KeysInOrder(ks) ==
  IF ks = {} THEN <<>>
  ELSE LET k == CHOOSE k \in ks : TRUE IN <<k>> \o KeysInOrder(ks \ {k})

\* node.ListXAttr
listXAttr(tc, n) ==
  (IF n.opaque THEN <<opaqueXattr>> ELSE <<>>) \o KeysInOrder(DOMAIN tc.attr.Xattrs)

RECURSIVE BitAnd(_, _)
\* x & y
BitAnd(x, y) ==
  IF x = 0 \/ y = 0 THEN 0
  ELSE 2 * BitAnd(x \div 2, y \div 2) + (IF x % 2 = 1 /\ y % 2 = 1 THEN 1 ELSE 0)

RECURSIVE Shl(_, _)
\* x << k
Shl(x, k) == IF k = 0 THEN x ELSE Shl(2 * x, k - 1)

RECURSIVE Shr(_, _)
\* x >> k
Shr(x, k) == IF k = 0 THEN x ELSE Shr(x \div 2, k - 1)

\* node.Access without the grant to uid 0
access_NoRootShortcut(tc, mode, uid, gid) ==
  IF mode = 0 THEN "OK"
  ELSE LET shift == IF tc.attr.Uid = uid THEN 6
                    ELSE IF tc.attr.Gid = gid THEN 3
                    ELSE 0
       IN IF BitAnd(Shl(mode, shift), tc.attr.perm) # 0 THEN "OK" ELSE "EPERM"

\* node.Access; only the permission bits of the mode can meet mode<<shift
access(tc, mode, uid, gid) ==
  IF uid = 0 THEN "OK"
  ELSE IF mode = 0 THEN "OK"
  ELSE LET shift == IF tc.attr.Uid = uid THEN 6
                    ELSE IF tc.attr.Gid = gid THEN 3
                    ELSE 0
       IN IF BitAnd(Shl(mode, shift), tc.attr.perm) # 0 THEN "OK" ELSE "EPERM"

\* state.mode(): 0500
stateMode == 320

\* statFile.mode(): 0400
statFileMode == 256

\* state.Access and statFile.Access, whose mode() is nodeMode:
\* "mode&s.mode()>>6" is (mode & s.mode()) >> 6
stateAccess(nodeMode, mode, uid) ==
  IF mode = 0 THEN "OK"
  ELSE IF uid = 0 /\ Shr(BitAnd(mode, nodeMode), 6) # 0 THEN "OK"
  ELSE "EPERM"

\* What the last FUSE call did and returned; "idle" when none is pending.
NR0 ==
  [op |-> "idle", name |-> <<>>, status |-> "OK", ents |-> <<>>, child |-> NoNode,
   attribute |-> "", value |-> "", attrs |-> <<>>, mode |-> 0, uid |-> 0, gid |-> 0]

\* the layer with the empty TOC, nothing looked up
NodeStart ==
  /\ toc = [rootChildren |-> {}, dChildren |-> {},
            attr |-> [Uid |-> 1000, Gid |-> 1000, perm |-> 0, Xattrs |-> [x \in {} |-> ""]]]
  /\ node = RootNode
  /\ nret = NR0

\* ================================================== the URL reader
\* One layer is mounted. Its bytes are read through the URL reader in
\* chunks, which the chunk cache keeps; the state file reports the progress.
LayerSize == 5

NReaders == 2

MaxFetched == 6

memoryCacheType == "memory"

defaultHTTPCacheChunkSize == 50000

defaultLRUCacheEntry == 5000

\* the bytes of the layer at the origin
Origin == [i \in 1 .. LayerSize |-> 10 + i]

Min(a, b) == IF a <= b THEN a ELSE b

Max(a, b) == IF a >= b THEN a ELSE b

\* the part of Config the caches and the reader are built from
CacheConfigs ==
  [HTTPCacheType : {memoryCacheType, "directory"}, LRUCacheEntry : {0, 2},
   HTTPCacheChunkSize : {0, 2}]

\* NewMemoryCache is given no bound: the number of entries a memory cache
\* keeps is its own, here one for every byte of the layer
memoryCapacity == LayerSize

\* fs.httpCacheChunkSize as NewFilesystem sets it
httpCacheChunkSize(cfg) ==
  IF cfg.HTTPCacheChunkSize = 0 THEN defaultHTTPCacheChunkSize ELSE cfg.HTTPCacheChunkSize

\* maxEntry as NewFilesystem computes it
maxEntry(cfg) == IF cfg.LRUCacheEntry = 0 THEN defaultLRUCacheEntry ELSE cfg.LRUCacheEntry

\* getCache with a directory cache of one entry whatever the bound
getCache_OneEntry(ctype, max) ==
  [cap |-> IF ctype = memoryCacheType THEN memoryCapacity ELSE 1,
   keys |-> <<>>, data |-> [k \in {} |-> <<>>]]

\* getCache: keys holds the cached chunks, the least recently used first
getCache(ctype, max) ==
  [cap |-> IF ctype = memoryCacheType THEN memoryCapacity ELSE max,
   keys |-> <<>>, data |-> [k \in {} |-> <<>>]]

Cached(c) == {c.keys[i] : i \in 1 .. Len(c.keys)}

Without(keys, key) == SelectSeq(keys, LAMBDA k : k # key)

\* cache.Fetch of a key that is there: the entry becomes the most recent
cacheFetch(c, key) == [c EXCEPT !.keys = Without(c.keys, key) \o <<key>>]

\* cache.Add: a no-op for a key that is there; the least recently used
\* entries go when the bound is passed
cacheAdd(c, key, bytes) ==
  IF key \in Cached(c) THEN c
  ELSE LET keys == c.keys \o <<key>>
           kept == IF Len(keys) > c.cap
                   THEN SubSeq(keys, Len(keys) - c.cap + 1, Len(keys))
                   ELSE keys
       IN [cap |-> c.cap, keys |-> kept,
           data |-> [k \in {kept[i] : i \in 1 .. Len(kept)} |->
                       IF k = key THEN bytes ELSE c.data[k]]]

\* the reader Mount builds, with the size and the chunk size swapped
urlReaderAt_Swapped(size, chunkSize) ==
  [size |-> chunkSize, chunkSize |-> size, fetchedSize |-> 0]

\* the urlReaderAt Mount builds for the layer
urlReaderAt(size, chunkSize) ==
  [size |-> size, chunkSize |-> chunkSize, fetchedSize |-> 0]

\* the chunks a read of n bytes at off touches
FirstChunk(u, off) == off \div u.chunkSize

LastChunk(u, off, n) == (Min(off + n, u.size) - 1) \div u.chunkSize

\* what a GET of chunk c returns:
\* bytes c*chunkSize .. min((c+1)*chunkSize, size)-1 of the origin
chunkBytes(u, c) ==
  SubSeq(Origin, c * u.chunkSize + 1, Min((c + 1) * u.chunkSize, u.size))

\* the bytes of chunk c that belong to the read of n bytes at off
splice(u, c, bytes, off, n) ==
  LET lo == Max(off, c * u.chunkSize)
      hi == Min(off + n, c * u.chunkSize + Len(bytes))
  IN SubSeq(bytes, lo - c * u.chunkSize + 1, hi - c * u.chunkSize)

\* statFile.report with the first failure kept
report_KeepFirst(sj, msg) == IF sj.Error = "" THEN [sj EXCEPT !.Error = msg] ELSE sj

\* statFile.report
report(sj, msg) == [sj EXCEPT !.Error = msg]

\* FetchedPercent: the quotient of the pair, which is Fetched / Size * 100.0
Percent(fetched, size) == <<fetched * 100, size>>

PercentLeq(p, q) == p[1] * q[2] <= q[1] * p[2]

\* statFile.updateStatUnlocked with the counter not read again
updateStatUnlocked_Stale(sj, fetched) ==
  [sj EXCEPT !.FetchedPercent = Percent(sj.FetchedSize, sj.Size)]

\* statFile.updateStatUnlocked, before json.Marshal
updateStatUnlocked(sj, fetched) ==
  [sj EXCEPT !.FetchedSize = fetched, !.FetchedPercent = Percent(fetched, sj.Size)]

\* json.Marshal(&e.statJSON): the fields present in the object; "error" has
\* omitempty
Marshal(sj) ==
  [f \in (IF sj.Error = "" THEN {} ELSE {"error"})
          \cup {"digest", "size", "fetchedSize", "fetchedPercent"} |->
     CASE f = "error" -> sj.Error
       [] f = "digest" -> sj.Digest
       [] f = "size" -> sj.Size
       [] f = "fetchedSize" -> sj.FetchedSize
       [] f = "fetchedPercent" -> sj.FetchedPercent]

\* a reader that is not reading
RD0 ==
  [pc |-> "idle", off |-> 0, n |-> 0, c |-> 0, buf |-> <<>>, err |-> "",
   status |-> "OK", absent |-> FALSE, first |-> FALSE]

\* what has happened to the layer so far
RH0 ==
  [added |-> {}, lastFailure |-> "", op |-> "idle", status |-> "OK"]

\* newState: the state file of a layer of the given size
newState(size) ==
  [Error |-> "", Digest |-> "digest", Size |-> size, FetchedSize |-> 0,
   FetchedPercent |-> Percent(0, size)]

\* the reader, cache and state file of a layer mounted under cfg
ReadStartWith(cfg) ==
  /\ rcfg = cfg
  /\ httpCache = getCache(cfg.HTTPCacheType, maxEntry(cfg))
  /\ ur = urlReaderAt(LayerSize, httpCacheChunkSize(cfg))
  /\ statJSON = newState(LayerSize)
  /\ rd = [r \in 1 .. NReaders |-> RD0]
  /\ rhist = RH0

ReadStart ==
  ReadStartWith([HTTPCacheType |-> "directory", LRUCacheEntry |-> 0, HTTPCacheChunkSize |-> 0])

\* ================================================== calls in progress
NThreads == 2       \* calls that run at the same time
BgChunks == 2       \* chunks of a layer the background fetch walks through

Threads == 1 .. NThreads

\* task.NewBackgroundTaskManager(2, 5*time.Second): the worker permits and
\* the quiescence period, in seconds
W == 2
Q == 5

\* The manager: the prioritized tasks in progress, the seconds the count has
\* been 0 (counted up to q) and the free worker permits.
NewBackgroundTaskManager(w, q) == [count |-> 0, quiet |-> 0, permits |-> w, period |-> q]

DoPrioritizedTask(b) == [b EXCEPT !.count = @ + 1, !.quiet = 0]

DonePrioritizedTask(b) == [b EXCEPT !.count = @ - 1, !.quiet = 0]

\* a second passes
tick(b) == IF b.count = 0 THEN [b EXCEPT !.quiet = Min(@ + 1, b.period)] ELSE b

\* a manager that looks at the count only
quiescent_NoWindow(b) == b.count = 0

\* no prioritized task has been active for at least the quiescence period
quiescent(b) == b.count = 0 /\ b.quiet >= b.period

\* InvokeBackgroundTask returns from its wait
canInvoke(b) == b.permits > 0 /\ quiescent(b)

\* deferred calls that run on the successful return only
deferred_OnSuccess(b, err) == IF err = ErrNone THEN DonePrioritizedTask(b) ELSE b

\* defer fs.backgroundTaskManager.DonePrioritizedTask(): runs on every return
deferred(b, err) == DonePrioritizedTask(b)

\* a call of the plugin: its operation, its mountpoint, the statement it is
\* at and the error it is about to return
TH0 == [op |-> "idle", mp |-> "", pc |-> "idle", err |-> ErrNone, at |-> ""]

\* the background fetch of a layer, whether its prefetch range has been read
\* and whether a FUSE server serves it
BG0 == [st |-> "none", next |-> 0, prefetched |-> FALSE, served |-> FALSE]

\* the statements at which a call waits for the registry
IOSteps == {"resolve", "getSize", "open", "prefetch", "roundtrip"}

\* a prefetch whose failure Mount passes over
afterPrefetch_Ignored(ok) == [pc |-> "spawn", err |-> ErrNone]

\* cache, err := gr.prefetch(sr); if err != nil { return err }
afterPrefetch(ok) ==
  IF ok THEN [pc |-> "spawn", err |-> ErrNone] ELSE [pc |-> "ret", err |-> FsErr]

\* the plugin before any call, with Config.NoPrefetch np
TaskStartWith(np) ==
  /\ th = [t \in Threads |-> TH0]
  /\ connMu = 0
  /\ tconn = {}
  /\ btm = NewBackgroundTaskManager(W, Q)
  /\ bg = [m \in Mountpoints |-> BG0]
  /\ noprefetch = np

TaskStart == TaskStartWith(FALSE)

\* ================================================ the source providers
MaxProviders == 3   \* providers handed to sources()

\* what a provider answers for the labels: its sources, or its error
ProviderResults ==
  {[err |-> ErrNone, src |-> "s1"], [err |-> ErrNone, src |-> "s2"],
   [err |-> "e1", src |-> ""], [err |-> "e2", src |-> ""]}

SeqsUpTo(S, n) == UNION {[1 .. k -> S] : k \in 0 .. n}

RECURSIVE sourcesFrom(_, _, _)
\* the loop of the combined provider from provider i on, allErr being what
\* multierror.Append has collected; consulted counts the providers called
sourcesFrom(p, i, allErr) ==
  IF i > Len(p) THEN [src |-> "", allErr |-> allErr, consulted |-> Len(p)]
  ELSE IF p[i].err = ErrNone THEN [src |-> p[i].src, allErr |-> <<>>, consulted |-> i]
  ELSE sourcesFrom(p, i + 1, Append(allErr, p[i].err))

\* a combined provider that passes over its first provider
sources_SkipFirst(p) == sourcesFrom(p, 2, <<>>)

\* sources(ps...)(labels)
sources(p) == sourcesFrom(p, 1, <<>>)

SR0 == [op |-> "idle", src |-> "", allErr |-> <<>>, consulted |-> 0]

\* ================================================== the layer converter
NConv == 2          \* invocations that run at the same time
MaxInvocations == 3 \* invocations of one ConvertFunc
MaxOpts == 2        \* options of the caller

Invokers == 1 .. NConv

\* the estargz options of the caller
CallerOptions == SeqsUpTo({"o1", "o2"}, MaxOpts)

\* estargz.WithCompression(compression) of invocation n
WithCompression(n) == <<"compression", n>>

\* LayerConvertFunc(opts...), LayerConvertWithLayerOptsFunc(opts) and the
\* latter with a nil map
ConvKinds == {"LayerConvertFunc", "LayerConvertWithLayerOptsFunc", "nil map"}

\* the invocations of the ConvertFunc share one captured opts; with a map of
\* options every invocation builds a new closure from opts[desc.Digest]
SharedClosure(kind) == kind # "LayerConvertWithLayerOptsFunc"

\* append(opts, estargz.WithCompression(compression)), mine being the value
\* of opts the invocation read
appendCompression(mine, n) == Append(mine, WithCompression(n))

CV0 == [pc |-> "idle", n |-> 0, mine |-> <<>>]

\* nothing of the two is in use
LibStart ==
  /\ ps = <<>>
  /\ sret = SR0
  /\ convKind = "LayerConvertFunc"
  /\ callerOpts = <<>>
  /\ opts = <<>>
  /\ cv = [t \in Invokers |-> CV0]
  /\ built = <<>>
  /\ ninv = 0

\* ------------------------------------------------------------------ actions
Init ==
  /\ asyncRemove \in BOOLEAN
  /\ store = [k \in {} |-> 0]
  /\ seq = 0
  /\ dirs = {}
  /\ fuse = {}
  /\ ret = R0
  /\ FsStart(0)
  /\ NodeStart
  /\ ReadStart
  /\ TaskStart
  /\ LibStart

\* the I/O faults that can change createSnapshot's result
FaultsFor(key, parent) ==
  IF CreateSnapshotErr(store, key, parent) = ErrNone THEN Faults ELSE {"none"}

RmFailsFor(kind, key, parent, labels, fault, okSet) ==
  IF createSnapshot(kind, key, parent, labels, fault, FALSE, okSet).removes \in {{}, {TempDir}}
  THEN {FALSE} ELSE BOOLEAN

TargetOf(labels) ==
  IF targetSnapshotLabel \in DOMAIN labels THEN labels[targetSnapshotLabel] ELSE ""

\* storage.GetInfo's error, which o.Stat returns
StatErr(st, key) == IF key \in DOMAIN st THEN ErrNone ELSE ErrNotFound

\* o.Stat
Stat ==
  \E key \in Keys :
    /\ ret.op = "idle"
    /\ UNCHANGED plugVars
    /\ ret' = [R0 EXCEPT !.op = "Stat", !.key = key, !.err = StatErr(store, key)]
    /\ UNCHANGED <<asyncRemove, store, seq, dirs, fuse>>

\* o.View
View ==
  /\ seq < MaxID
  /\ ret.op = "idle"
  /\ UNCHANGED plugVars
  /\ \E key \in ActiveKeys, parent \in Names \cup {""}, labels \in ViewLabels :
     \E fault \in FaultsFor(key, parent), okSet \in SUBSET ChainMountpoints(store, parent) :
     \E rmf \in RmFailsFor(KindView, key, parent, labels, fault, okSet) :
       LET c == createSnapshot(KindView, key, parent, labels, fault, rmf, okSet)
       IN /\ store' = c.store
          /\ seq' = c.seq
          /\ dirs' = c.dirs
          /\ ret' = [R0 EXCEPT !.op = "View", !.key = key, !.parent = parent,
                               !.err = c.err, !.m = c.m, !.id = c.id,
                               !.checked = c.checked, !.avail = c.avail, !.okSet = okSet,
                               !.unmounts = c.unmounts, !.removes = c.removes]
          /\ UNCHANGED <<asyncRemove, fuse>>

\* o.Prepare
Prepare ==
  /\ seq < MaxID
  /\ ret.op = "idle"
  /\ UNCHANGED plugVars
  /\ \E key \in ActiveKeys, parent \in Names \cup {""}, labels \in PrepareLabels :
     \E fault \in FaultsFor(key, parent), okSet \in SUBSET ChainMountpoints(store, parent) :
     \E rmf \in RmFailsFor(KindActive, key, parent, labels, fault, okSet) :
       LET c == createSnapshot(KindActive, key, parent, labels, fault, rmf, okSet)
           r == [R0 EXCEPT !.op = "Prepare", !.key = key, !.parent = parent,
                           !.target = TargetOf(labels),
                           !.err = c.err, !.m = c.m, !.id = c.id,
                           !.checked = c.checked, !.avail = c.avail, !.okSet = okSet,
                           !.unmounts = c.unmounts, !.removes = c.removes]
       IN IF c.err # ErrNone \/ targetSnapshotLabel \notin DOMAIN labels
          THEN /\ store' = c.store
               /\ seq' = c.seq
               /\ dirs' = c.dirs
               /\ ret' = r
               /\ UNCHANGED <<asyncRemove, fuse>>
          ELSE \E outs \in [1 .. NPlugins -> MountOutcomes], cfault \in {"none", "commit"} :
                 LET target == labels[targetSnapshotLabel]
                     p == prepareRemoteSnapshot(outs)
                     mp == upperPath(c.id)
                     cm == commit(c.store, c.dirs, target, key,
                                  stampFilesystemID(labels, p.fsid), 1, cfault)
                     r2 == [r EXCEPT !.tried = TRUE, !.calls = p.calls, !.outs = outs,
                                     !.fsid = p.fsid]
                 IN /\ seq' = c.seq
                    /\ dirs' = c.dirs
                    /\ UNCHANGED asyncRemove
                    /\ IF p.fsid < 0
                       THEN \* every Mount failed
                            /\ cfault = "none"
                            /\ store' = c.store
                            /\ fuse' = fuse
                            /\ ret' = [r2 EXCEPT !.err = fallback(c.m).err,
                                                 !.m = fallback(c.m).m]
                       ELSE /\ fuse' = fuse \cup {<<p.fsid, mp>>}
                            /\ store' = cm.store
                            /\ ret' = IF cm.err # ErrNone
                                      THEN [r2 EXCEPT !.cerr = cm.err,
                                                      !.err = fallback(c.m).err,
                                                      !.m = fallback(c.m).m]
                                      ELSE [r2 EXCEPT !.err = ErrAlreadyExists, !.m = <<>>,
                                                      !.name = target,
                                                      !.walked = cm.walked,
                                                      !.usage = cm.usage]

\* o.Mounts
Mounts ==
  \E key \in Keys :
    \E okSet \in SUBSET ChainMountpoints(store, key) :
      /\ ret.op = "idle"
      /\ UNCHANGED plugVars
      /\ ret' = IF key \notin DOMAIN store
                THEN [R0 EXCEPT !.op = "Mounts", !.key = key, !.err = ErrNotFound]
                ELSE LET r == mounts(store, fuse, GetSnapshot(store, key), key, okSet)
                     IN [R0 EXCEPT !.op = "Mounts", !.key = key, !.err = r.err, !.m = r.m,
                                   !.id = IDString(store[key].id),
                                   !.checked = TRUE,
                                   !.avail = checkAvailability(store, fuse, key, okSet),
                                   !.okSet = okSet]
      /\ UNCHANGED <<asyncRemove, store, seq, dirs, fuse>>

\* o.Commit
Commit ==
  \E name \in Names, key \in Keys, labels \in CommitLabels, du \in 1 .. MaxDu,
     fault \in {"none", "commit"} :
    LET cm == commit(store, dirs, name, key, labels, du, fault)
    IN /\ ret.op = "idle"
       /\ UNCHANGED plugVars
       /\ (cm.err # ErrNone /\ cm.err # ErrIO) => (fault = "none" /\ du = 1)
       /\ store' = cm.store
       /\ ret' = [R0 EXCEPT !.op = "Commit", !.key = key, !.name = name,
                            !.err = cm.err, !.walked = cm.walked, !.usage = cm.usage]
       /\ UNCHANGED <<asyncRemove, seq, dirs, fuse>>

\* the RemoveAll failures considered: none, or that of a single directory
RmFailSets(names) == {{}} \cup {{n} : n \in names}

\* o.Remove
Remove ==
  /\ ret.op = "idle"
  /\ UNCHANGED plugVars
  /\ \E key \in Keys, fault \in {"none", "readdir", "commit"} :
     \E rmfail \in RmFailSets(IF asyncRemove \/ fault # "none" \/ key \notin DOMAIN store
                              THEN {}
                              ELSE getCleanupDirectories(storageRemove(store, key), dirs)) :
       LET r == remove(asyncRemove, store, dirs, fuse, key, fault, rmfail)
       IN /\ fault = "readdir" => ~asyncRemove
          /\ fault # "none" => storageRemoveErr(store, key) = ErrNone
          /\ store' = r.store
          /\ dirs' = r.dirs
          /\ fuse' = r.fuse
          /\ ret' = [R0 EXCEPT !.op = "Remove", !.key = key, !.err = r.err,
                               !.unmounts = r.unmounts, !.removes = r.removes]
          /\ UNCHANGED <<asyncRemove, seq>>

\* o.Cleanup
Cleanup ==
  /\ ret.op = "idle"
  /\ UNCHANGED plugVars
  /\ \E fault \in {"none", "readdir"} :
       LET cleanup == getCleanupDirectories(store, dirs)
           r == [R0 EXCEPT !.op = "Cleanup"]
       IN IF fault # "none"
          THEN /\ ret' = [r EXCEPT !.err = ErrIO]
               /\ UNCHANGED <<asyncRemove, store, seq, dirs, fuse>>
          ELSE \E rmfail \in RmFailSets(cleanup) :
                 /\ dirs' = cleanupDirs(dirs, cleanup, rmfail)
                 /\ fuse' = cleanupFuse(fuse, cleanup)
                 /\ ret' = [r EXCEPT !.unmounts = MountpointsOf(cleanup),
                                     !.removes = cleanup]
                 /\ UNCHANGED <<asyncRemove, store, seq>>

\* the call returns: its result is handed to the caller, who may call again
Return ==
  /\ ret.op # "idle"
  /\ UNCHANGED plugVars
  /\ ret' = R0
  /\ UNCHANGED <<asyncRemove, store, seq, dirs, fuse>>

Next == Stat \/ View \/ Prepare \/ Mounts \/ Commit \/ Remove \/ Cleanup \/ Return

Spec == Init /\ [][Next]_vars

\* ------------------------------------------------ actions of the plugin
\* the snapshotter before any call, removing synchronously
SnapshotterStart ==
  /\ asyncRemove = FALSE
  /\ store = [k \in {} |-> 0]
  /\ seq = 0
  /\ dirs = {}
  /\ fuse = {}
  /\ ret = R0

\* NewFilesystem with one of the configurations
FsInit ==
  /\ SnapshotterStart
  /\ \E cfg \in Configs : FsStart(cfg)
  /\ NodeStart
  /\ ReadStart
  /\ TaskStart
  /\ LibStart

\* fs.Mount on a mountpoint no FUSE server serves yet
Mount ==
  /\ fsret.op = "idle"
  /\ UNCHANGED <<libVars, snapVars, nodeVars, rdVars, taskVars>>
  /\ \E mountpoint \in Mountpoints \ served, ref \in Refs, hasLabels \in BOOLEAN :
     \E parseOK \in (IF hasLabels THEN BOOLEAN ELSE {TRUE}) :
     \E rtCached \in (IF hasLabels /\ parseOK /\ ref \in DOMAIN pullTransports
                      THEN RoundTrips ELSE {RoundTripError}) :
     \E refreshOK \in (IF /\ hasLabels /\ parseOK /\ trSeq < MaxTr
                          /\ \/ ref \notin DOMAIN pullTransports
                             \/ checkAndRedirect(BlobURL, rtCached).err # ErrNone
                       THEN BOOLEAN ELSE {FALSE}) :
     \E rtFresh \in (IF refreshOK THEN RoundTrips ELSE {RoundTripError}) :
       LET rs == resolve(pullTransports, ref, parseOK, rtCached, refreshOK, rtFresh,
                         trSeq + 1)
       IN \E lateOK \in (IF hasLabels /\ rs.err = ErrNone /\ NewRequestOK(rs.url)
                         THEN BOOLEAN ELSE {FALSE}) :
            LET r == mount(conn, served, mountpoint, hasLabels, rs, clock, lateOK)
            IN /\ conn' = r.conn
               /\ served' = r.served
               /\ pullTransports' = IF hasLabels THEN rs.pullTransports ELSE pullTransports
               /\ trSeq' = IF hasLabels /\ rs.refreshed THEN trSeq + 1 ELSE trSeq
               /\ fsret' = [FR0 EXCEPT !.op = "Mount", !.mountpoint = mountpoint,
                                       !.err = r.err, !.resolved = hasLabels,
                                       !.probes = IF hasLabels THEN rs.probes ELSE <<>>,
                                       !.failed = IF hasLabels THEN rs.failed ELSE {}]
               /\ UNCHANGED <<config, layerValidInterval, clock>>

\* fs.Check
FsCheck ==
  /\ fsret.op = "idle"
  /\ UNCHANGED <<libVars, snapVars, nodeVars, rdVars, taskVars>>
  /\ \E mountpoint \in Mountpoints :
     \E rt \in (IF check(conn, mountpoint, clock, layerValidInterval, RoundTripError).sent
                THEN RoundTrips ELSE {RoundTripError}) :
       LET r == check(conn, mountpoint, clock, layerValidInterval, rt)
       IN /\ conn' = r.conn
          /\ fsret' = [FR0 EXCEPT !.op = "Check", !.mountpoint = mountpoint,
                                  !.err = r.err, !.expired = r.expired,
                                  !.sent = r.sent, !.rt = rt]
          /\ UNCHANGED <<config, layerValidInterval, pullTransports, served, clock, trSeq>>

\* the FUSE mount of a served mountpoint is torn down: node.OnUnmount
OnUnmount ==
  /\ fsret.op = "idle"
  /\ UNCHANGED <<libVars, snapVars, nodeVars, rdVars, taskVars>>
  /\ \E mountpoint \in served :
       /\ conn' = onUnmount(conn, mountpoint)
       /\ served' = served \ {mountpoint}
       /\ fsret' = [FR0 EXCEPT !.op = "OnUnmount", !.mountpoint = mountpoint]
       /\ UNCHANGED <<config, layerValidInterval, pullTransports, clock, trSeq>>

\* time passes between two calls
Tick ==
  /\ fsret.op = "idle"
  /\ UNCHANGED <<libVars, snapVars, nodeVars, rdVars, taskVars>>
  /\ \E d \in TickSteps :
       /\ clock + d <= MaxClock
       /\ clock' = clock + d
       /\ UNCHANGED <<config, layerValidInterval, pullTransports, conn, served, trSeq, fsret>>

\* the plugin call returns
FsReturn ==
  /\ fsret.op # "idle"
  /\ fsret' = FR0
  /\ UNCHANGED <<libVars, snapVars, nodeVars, rdVars, taskVars>>
  /\ UNCHANGED <<config, layerValidInterval, pullTransports, conn, served, clock, trSeq>>

FsNext == Mount \/ FsCheck \/ OnUnmount \/ Tick \/ FsReturn

FsSpec == FsInit /\ [][FsNext]_vars

\* ------------------------------------------------- actions of a mounted layer
\* the names, attributes, access masks and callers the kernel asks with
LookupNames ==
  {<<"a">>, <<"b">>, DirName, <<whiteoutPrefix, "a">>, PrefetchLandmark, stateDirName,
   statFileName, whiteoutOpaqueDir}

Attributes == {opaqueXattr, "user.x"}

AccessModes == {0, 1, 4, 7}

CallerUids == {0, 1000, 2000}

CallerGids == {1000, 2000}

\* a layer is mounted; the kernel holds its root
NodeInit ==
  /\ SnapshotterStart
  /\ FsStart(0)
  /\ toc \in TOCs
  /\ node = RootNode
  /\ nret = NR0
  /\ ReadStart
  /\ TaskStart
  /\ LibStart

CanList == (node.kind = "node" /\ IsDir(node.e)) \/ node.kind = "state"

OpenDir ==
  /\ nret.op = "idle"
  /\ CanList
  /\ \E ents \in SortedByName(IF node.kind = "state" THEN stateOpenDir
                              ELSE openDir(toc, node)) :
       nret' = [NR0 EXCEPT !.op = "OpenDir", !.ents = ents]
  /\ UNCHANGED <<libVars, snapVars, fsVars, rdVars, taskVars, toc, node>>

Lookup ==
  /\ nret.op = "idle"
  /\ CanList
  /\ \E name \in LookupNames :
       LET r == IF node.kind = "state" THEN stateLookup(name)
                ELSE lookup(toc, node, name)
       IN nret' = [NR0 EXCEPT !.op = "Lookup", !.name = name,
                              !.status = r.status, !.child = r.child]
  /\ UNCHANGED <<libVars, snapVars, fsVars, rdVars, taskVars, toc, node>>

GetXAttr ==
  /\ nret.op = "idle"
  /\ node.kind = "node"
  /\ \E attribute \in Attributes :
       LET r == getXAttr(toc, node, attribute)
       IN nret' = [NR0 EXCEPT !.op = "GetXAttr", !.attribute = attribute,
                              !.status = r.status, !.value = r.value]
  /\ UNCHANGED <<libVars, snapVars, fsVars, rdVars, taskVars, toc, node>>

ListXAttr ==
  /\ nret.op = "idle"
  /\ node.kind = "node"
  /\ nret' = [NR0 EXCEPT !.op = "ListXAttr", !.attrs = listXAttr(toc, node)]
  /\ UNCHANGED <<libVars, snapVars, fsVars, rdVars, taskVars, toc, node>>

Access ==
  /\ nret.op = "idle"
  /\ node.kind \in {"node", "state", "statFile"}
  /\ \E mode \in AccessModes, uid \in CallerUids, gid \in CallerGids :
       nret' = [NR0 EXCEPT !.op = "Access", !.mode = mode, !.uid = uid, !.gid = gid,
                           !.status = IF node.kind = "node" THEN access(toc, mode, uid, gid)
                                      ELSE IF node.kind = "state"
                                      THEN stateAccess(stateMode, mode, uid)
                                      ELSE stateAccess(statFileMode, mode, uid)]
  /\ UNCHANGED <<libVars, snapVars, fsVars, rdVars, taskVars, toc, node>>

\* the kernel goes on with the node a Lookup resolved
Descend ==
  /\ nret.op = "Lookup"
  /\ nret.status = "OK"
  /\ node' = nret.child
  /\ nret' = NR0
  /\ UNCHANGED <<libVars, snapVars, fsVars, rdVars, taskVars, toc>>

NodeReturn ==
  /\ nret.op # "idle"
  /\ nret' = NR0
  /\ UNCHANGED <<libVars, snapVars, fsVars, rdVars, taskVars, toc, node>>

NodeNext ==
  OpenDir \/ Lookup \/ GetXAttr \/ ListXAttr \/ Access \/ Descend \/ NodeReturn

NodeSpec == NodeInit /\ [][NodeNext]_vars

\* ------------------------------------------------- actions of the URL reader
\* where the kernel reads and how much: inside the first chunk, across
\* chunks, and past the end of the layer
Reads == {<<0, 2>>, <<1, 4>>, <<LayerSize - 2, 4>>}

\* the ways a GET can end: the chunk, or an error (a short body is one)
GetOutcomes == {"ok", "error"}

ReadInit ==
  /\ SnapshotterStart
  /\ FsStart(0)
  /\ NodeStart
  /\ TaskStart
  /\ LibStart
  /\ \E cfg \in CacheConfigs : ReadStartWith(cfg)

\* node.Open
FileOpen ==
  /\ rhist.op = "idle"
  /\ \E ok \in BOOLEAN :
       IF ok
       THEN /\ rhist' = [rhist EXCEPT !.op = "Open", !.status = "OK"]
            /\ UNCHANGED statJSON
       ELSE LET msg == "failed to open node: " \o "error"
            IN /\ statJSON' = report(statJSON, msg)
               /\ rhist' = [rhist EXCEPT !.op = "Open", !.status = "EIO",
                                         !.lastFailure = msg]
  /\ UNCHANGED <<libVars, snapVars, fsVars, nodeVars, taskVars, rcfg, httpCache, ur, rd>>

\* file.Read enters ReadAt
FileRead(r) ==
  /\ rd[r].pc = "idle"
  /\ \E rq \in Reads :
       rd' = [rd EXCEPT ![r] = [RD0 EXCEPT !.pc = "fetch", !.off = rq[1], !.n = rq[2],
                                           !.c = FirstChunk(ur, rq[1])]]
  /\ UNCHANGED <<libVars, snapVars, fsVars, nodeVars, taskVars, rcfg, httpCache, ur, statJSON, rhist>>

\* the reader after chunk c gave its bytes: the next chunk, or file.Read
\* returns the data
Spliced(r, bytes) ==
  LET x == rd[r]
      buf == x.buf \o splice(ur, x.c, bytes, x.off, x.n)
  IN IF x.c < LastChunk(ur, x.off, x.n)
     THEN [x EXCEPT !.pc = "fetch", !.c = x.c + 1, !.buf = buf]
     ELSE [x EXCEPT !.pc = "done", !.buf = buf, !.status = "OK"]

\* ReadAt looks the current chunk up in the cache
Fetch(r) ==
  /\ rd[r].pc = "fetch"
  /\ IF rd[r].c \in Cached(httpCache)
     THEN /\ httpCache' = cacheFetch(httpCache, rd[r].c)
          /\ rd' = [rd EXCEPT ![r] = Spliced(r, httpCache.data[rd[r].c])]
     ELSE /\ rd' = [rd EXCEPT ![r] = [@ EXCEPT !.pc = "get", !.absent = TRUE,
                                               !.first = rd[r].c \notin rhist.added]]
          /\ UNCHANGED httpCache
  /\ UNCHANGED <<libVars, snapVars, fsVars, nodeVars, taskVars, rcfg, ur, statJSON, rhist>>

\* ReadAt fetches the chunk it missed from the origin; when that fails
\* file.Read reports the error and returns EIO
Get(r) ==
  /\ rd[r].pc = "get"
  /\ ur.fetchedSize < MaxFetched
  /\ \E outcome \in GetOutcomes :
       IF outcome = "ok"
       THEN LET bytes == chunkBytes(ur, rd[r].c)
            IN /\ httpCache' = cacheAdd(httpCache, rd[r].c, bytes)
               /\ ur' = [ur EXCEPT !.fetchedSize = @ + Len(bytes)]
               /\ rd' = [rd EXCEPT ![r] = Spliced(r, bytes)]
               /\ rhist' = [rhist EXCEPT !.added = @ \cup {rd[r].c}]
               /\ UNCHANGED statJSON
       ELSE LET msg == "failed to read node: " \o outcome
            IN /\ rd' = [rd EXCEPT ![r] = [@ EXCEPT !.pc = "done", !.err = outcome,
                                                    !.status = "EIO"]]
               /\ statJSON' = report(statJSON, msg)
               /\ rhist' = [rhist EXCEPT !.lastFailure = msg]
               /\ UNCHANGED <<httpCache, ur>>
  /\ UNCHANGED <<libVars, snapVars, fsVars, nodeVars, taskVars, rcfg>>

\* statFile.Read of the whole file
StatRead ==
  /\ rhist.op = "idle"
  /\ statJSON' = updateStatUnlocked(statJSON, ur.fetchedSize)
  /\ rhist' = [rhist EXCEPT !.op = "StatRead", !.status = "OK"]
  /\ UNCHANGED <<libVars, snapVars, fsVars, nodeVars, taskVars, rcfg, httpCache, ur, rd>>

\* the kernel has its answer
ReadReturn ==
  /\ \/ /\ rhist.op # "idle"
        /\ rhist' = [rhist EXCEPT !.op = "idle", !.status = "OK"]
        /\ UNCHANGED rd
     \/ /\ \E r \in 1 .. NReaders :
             /\ rd[r].pc = "done"
             /\ rd' = [rd EXCEPT ![r] = RD0]
        /\ UNCHANGED rhist
  /\ UNCHANGED <<libVars, snapVars, fsVars, nodeVars, taskVars, rcfg, httpCache, ur, statJSON>>

ReadNext ==
  \/ FileOpen
  \/ \E r \in 1 .. NReaders : FileRead(r) \/ Fetch(r) \/ Get(r)
  \/ StatRead
  \/ ReadReturn

ReadSpec == ReadInit /\ [][ReadNext]_vars

TypeOK ==
  /\ asyncRemove \in BOOLEAN
  /\ seq \in 0 .. MaxID
  /\ DOMAIN store \subseteq Keys
  /\ \A k \in DOMAIN store : store[k].id \in 1 .. seq

\* ------------------------------------------------- calls in progress
\* what stargz.Open, the root lookup and the prefetch give
OpenOutcomes == {"ok", "open failed", "no root"}

Busy(mp) == \E t \in Threads : th[t].op = "Mount" /\ th[t].mp = mp

\* the call goes to statement pc; at is the statement an error comes from
Goto(t, pc, err) ==
  [th EXCEPT ![t].pc = pc, ![t].err = err,
             ![t].at = IF err = ErrNone THEN "" ELSE th[t].pc]

TaskInit ==
  /\ SnapshotterStart
  /\ FsStart(0)
  /\ NodeStart
  /\ ReadStart
  /\ LibStart
  /\ \E np \in BOOLEAN : TaskStartWith(np)

\* Mount is called for a mountpoint nothing was mounted on: DoPrioritizedTask,
\* then the two labels are read.
MountEnter(t) ==
  /\ th[t].op = "idle"
  /\ \E mp \in Mountpoints, hasLabels \in BOOLEAN :
       /\ bg[mp].st = "none"
       /\ ~Busy(mp)
       /\ th' = [th EXCEPT ![t] = [op |-> "Mount", mp |-> mp,
                                   pc |-> IF hasLabels THEN "resolve" ELSE "ret",
                                   err |-> IF hasLabels THEN ErrNone ELSE FsErr,
                                   at |-> IF hasLabels THEN "" ELSE "labels"]]
  /\ btm' = DoPrioritizedTask(btm)
  /\ UNCHANGED <<libVars, snapVars, fsVars, nodeVars, rdVars, noprefetch, connMu, tconn, bg>>

\* fs.resolve answers
MountResolve(t) ==
  /\ th[t].op = "Mount" /\ th[t].pc = "resolve"
  /\ \E ok \in BOOLEAN :
       th' = IF ok THEN Goto(t, "conn", ErrNone) ELSE Goto(t, "ret", FsErr)
  /\ UNCHANGED <<libVars, snapVars, fsVars, nodeVars, rdVars, noprefetch, connMu, tconn, btm, bg>>

\* fs.connMu.Lock(); fs.conn[mountpoint] = ...; fs.connMu.Unlock()
MountConn(t) ==
  /\ th[t].op = "Mount" /\ th[t].pc = "conn"
  /\ connMu = 0
  /\ tconn' = tconn \cup {th[t].mp}
  /\ th' = Goto(t, "getSize", ErrNone)
  /\ UNCHANGED <<libVars, snapVars, fsVars, nodeVars, rdVars, noprefetch, connMu, btm, bg>>

\* fs.getSize answers
MountGetSize(t) ==
  /\ th[t].op = "Mount" /\ th[t].pc = "getSize"
  /\ \E ok \in BOOLEAN :
       th' = IF ok THEN Goto(t, "open", ErrNone) ELSE Goto(t, "ret", FsErr)
  /\ UNCHANGED <<libVars, snapVars, fsVars, nodeVars, rdVars, noprefetch, connMu, tconn, btm, bg>>

\* stargz.Open and the lookup of the root.  Without a root entry Mount
\* returns err, which is nil at that point.
MountOpen(t) ==
  /\ th[t].op = "Mount" /\ th[t].pc = "open"
  /\ \E o \in OpenOutcomes :
       th' = IF o = "ok" THEN Goto(t, IF noprefetch THEN "spawn" ELSE "prefetch", ErrNone)
             ELSE IF o = "no root" THEN Goto(t, "ret", ErrNone)
             ELSE Goto(t, "ret", FsErr)
  /\ UNCHANGED <<libVars, snapVars, fsVars, nodeVars, rdVars, noprefetch, connMu, tconn, btm, bg>>

\* gr.prefetch(sr) reads the prefetch range; the caching of what it read is
\* left to a goroutine
MountPrefetch(t) ==
  /\ th[t].op = "Mount" /\ th[t].pc = "prefetch"
  /\ \E ok \in BOOLEAN :
       /\ th' = Goto(t, afterPrefetch(ok).pc, afterPrefetch(ok).err)
       /\ bg' = [bg EXCEPT ![th[t].mp].prefetched = ok]
  /\ UNCHANGED <<libVars, snapVars, fsVars, nodeVars, rdVars, noprefetch, connMu, tconn, btm>>

\* the go statement of the background fetch of the whole layer
MountSpawn(t) ==
  /\ th[t].op = "Mount" /\ th[t].pc = "spawn"
  /\ th' = Goto(t, "serve", ErrNone)
  /\ bg' = [bg EXCEPT ![th[t].mp].st = "waiting"]
  /\ UNCHANGED <<libVars, snapVars, fsVars, nodeVars, rdVars, noprefetch, connMu, tconn, btm>>

\* fuse.NewServer, go server.Serve() and server.WaitMount()
MountServe(t) ==
  /\ th[t].op = "Mount" /\ th[t].pc = "serve"
  /\ \E ok \in BOOLEAN :
       /\ th' = Goto(t, "ret", IF ok THEN ErrNone ELSE FsErr)
       /\ bg' = [bg EXCEPT ![th[t].mp].served = ok]
  /\ UNCHANGED <<libVars, snapVars, fsVars, nodeVars, rdVars, noprefetch, connMu, tconn, btm>>

\* Check is called: DoPrioritizedTask
CheckEnter(t) ==
  /\ th[t].op = "idle"
  /\ \E mp \in Mountpoints :
       th' = [th EXCEPT ![t] = [op |-> "Check", mp |-> mp, pc |-> "lock",
                                err |-> ErrNone, at |-> ""]]
  /\ btm' = DoPrioritizedTask(btm)
  /\ UNCHANGED <<libVars, snapVars, fsVars, nodeVars, rdVars, noprefetch, connMu, tconn, bg>>

\* fs.connMu.Lock() with the unlock deferred, then the record is looked up
\* and its age compared with the validity interval
CheckLock(t) ==
  /\ th[t].op = "Check" /\ th[t].pc = "lock"
  /\ connMu = 0
  /\ connMu' = t
  /\ \E expired \in BOOLEAN :
       th' = IF th[t].mp \notin tconn THEN Goto(t, "ret", FsErr)
             ELSE IF ~expired THEN Goto(t, "ret", ErrNone)
             ELSE Goto(t, "roundtrip", ErrNone)
  /\ UNCHANGED <<libVars, snapVars, fsVars, nodeVars, rdVars, noprefetch, tconn, btm, bg>>

\* c.tr.RoundTrip answers
CheckRoundTrip(t) ==
  /\ th[t].op = "Check" /\ th[t].pc = "roundtrip"
  /\ \E ok \in BOOLEAN :
       th' = Goto(t, "ret", IF ok THEN ErrNone ELSE FsErr)
  /\ UNCHANGED <<libVars, snapVars, fsVars, nodeVars, rdVars, noprefetch, connMu, tconn, btm, bg>>

\* the call returns: the deferred unlock of Check, then the deferred
\* DonePrioritizedTask
TaskReturn(t) ==
  /\ th[t].pc = "ret"
  /\ connMu' = IF connMu = t THEN 0 ELSE connMu
  /\ btm' = deferred(btm, th[t].err)
  /\ th' = [th EXCEPT ![t] = TH0]
  /\ UNCHANGED <<libVars, snapVars, fsVars, nodeVars, rdVars, noprefetch, tconn, bg>>

\* the kernel unmounts a served layer: node.OnUnmount
TaskOnUnmount ==
  /\ connMu = 0
  /\ \E mp \in Mountpoints :
       /\ bg[mp].served
       /\ tconn' = tconn \ {mp}
       /\ bg' = [bg EXCEPT ![mp].served = FALSE]
  /\ UNCHANGED <<libVars, snapVars, fsVars, nodeVars, rdVars, noprefetch, th, connMu, btm>>

\* InvokeBackgroundTask lets the background fetch of mp in
BgStart(mp) ==
  /\ bg[mp].st = "waiting"
  /\ canInvoke(btm)
  /\ bg' = [bg EXCEPT ![mp].st = "running"]
  /\ btm' = [btm EXCEPT !.permits = @ - 1]
  /\ UNCHANGED <<libVars, snapVars, fsVars, nodeVars, rdVars, noprefetch, th, connMu, tconn>>

\* the checkpoint before a chunk: the fetch yields when a prioritized task is
\* active and sends the request for the chunk when none is
BgCheckpoint(mp) ==
  /\ bg[mp].st = "running"
  /\ bg' = [bg EXCEPT ![mp].st = IF btm.count > 0 THEN "paused" ELSE "fetching"]
  /\ UNCHANGED <<libVars, snapVars, fsVars, nodeVars, rdVars, noprefetch, th, connMu, tconn, btm>>

\* the request answers: the fetch goes on, ends after the last chunk or ends
\* with the error, which is logged
BgFetched(mp) ==
  /\ bg[mp].st = "fetching"
  /\ \E o \in GetOutcomes :
       LET last == bg[mp].next + 1 = BgChunks
       IN /\ bg' = [bg EXCEPT ![mp].st = IF o # "ok" THEN "failed"
                                          ELSE IF last THEN "done" ELSE "running",
                              ![mp].next = IF o = "ok" THEN @ + 1 ELSE @]
          /\ btm' = IF o # "ok" \/ last THEN [btm EXCEPT !.permits = @ + 1] ELSE btm
  /\ UNCHANGED <<libVars, snapVars, fsVars, nodeVars, rdVars, noprefetch, th, connMu, tconn>>

\* a paused fetch goes on
BgResume(mp) ==
  /\ bg[mp].st = "paused"
  /\ quiescent(btm)
  /\ bg' = [bg EXCEPT ![mp].st = "running"]
  /\ UNCHANGED <<libVars, snapVars, fsVars, nodeVars, rdVars, noprefetch, th, connMu, tconn, btm>>

\* a second passes
TaskTick ==
  /\ btm' = tick(btm)
  /\ UNCHANGED <<libVars, snapVars, fsVars, nodeVars, rdVars, noprefetch, th, connMu, tconn, bg>>

TaskNext ==
  \/ \E t \in Threads : MountEnter(t)
  \/ \E t \in Threads : MountResolve(t)
  \/ \E t \in Threads : MountConn(t)
  \/ \E t \in Threads : MountGetSize(t)
  \/ \E t \in Threads : MountOpen(t)
  \/ \E t \in Threads : MountPrefetch(t)
  \/ \E t \in Threads : MountSpawn(t)
  \/ \E t \in Threads : MountServe(t)
  \/ \E t \in Threads : CheckEnter(t)
  \/ \E t \in Threads : CheckLock(t)
  \/ \E t \in Threads : CheckRoundTrip(t)
  \/ \E t \in Threads : TaskReturn(t)
  \/ TaskOnUnmount
  \/ \E mp \in Mountpoints : BgStart(mp)
  \/ \E mp \in Mountpoints : BgCheckpoint(mp)
  \/ \E mp \in Mountpoints : BgFetched(mp)
  \/ \E mp \in Mountpoints : BgResume(mp)
  \/ TaskTick

TaskSpec == TaskInit /\ [][TaskNext]_vars

\* The goroutines of the background fetch and the manager's timer are
\* scheduled: a step of theirs that stays possible is taken.
TaskFairness ==
  /\ WF_vars(TaskTick)
  /\ \A mp \in Mountpoints :
       /\ WF_vars(BgStart(mp))
       /\ WF_vars(BgCheckpoint(mp))
       /\ WF_vars(BgFetched(mp))
       /\ WF_vars(BgResume(mp))

TaskLiveSpec == TaskSpec /\ TaskFairness

\* ------------------------------------------------- the source providers
SrcInit ==
  /\ SnapshotterStart
  /\ FsStart(0)
  /\ NodeStart
  /\ ReadStart
  /\ TaskStart
  /\ ps \in SeqsUpTo(ProviderResults, MaxProviders)
  /\ sret = SR0
  /\ convKind = "LayerConvertFunc"
  /\ callerOpts = <<>>
  /\ opts = <<>>
  /\ cv = [t \in Invokers |-> CV0]
  /\ built = <<>>
  /\ ninv = 0

\* the combined provider is called with the labels of a layer
GetSources ==
  /\ sret.op = "idle"
  /\ sret' = [op |-> "GetSources"] @@ sources(ps)
  /\ UNCHANGED <<snapVars, fsVars, nodeVars, rdVars, taskVars,
                 ps, convKind, callerOpts, opts, cv, built, ninv>>

SrcReturn ==
  /\ sret.op # "idle"
  /\ sret' = SR0
  /\ UNCHANGED <<snapVars, fsVars, nodeVars, rdVars, taskVars,
                 ps, convKind, callerOpts, opts, cv, built, ninv>>

SrcNext == GetSources \/ SrcReturn

SrcSpec == SrcInit /\ [][SrcNext]_vars

\* ------------------------------------------------- the layer converter
\* what happens before the options are touched: the descriptor is no layer,
\* one of uncompress, cs.Info and cs.ReaderAt fails, or none of these
ConvOutcomes == {"no layer", "error", "ok"}

ConvInit ==
  /\ SnapshotterStart
  /\ FsStart(0)
  /\ NodeStart
  /\ ReadStart
  /\ TaskStart
  /\ ps = <<>>
  /\ sret = SR0
  /\ convKind \in ConvKinds
  /\ callerOpts \in IF convKind = "nil map" THEN {<<>>} ELSE CallerOptions
  /\ opts = callerOpts
  /\ cv = [t \in Invokers |-> CV0]
  /\ built = <<>>
  /\ ninv = 0

\* the ConvertFunc is invoked on a descriptor
ConvEnter(t) ==
  /\ cv[t].pc = "idle"
  /\ ninv < MaxInvocations
  /\ ninv' = ninv + 1
  /\ \E o \in ConvOutcomes :
       cv' = [cv EXCEPT ![t] = [pc |-> IF o = "ok" THEN "append" ELSE "ret",
                                n |-> ninv + 1, mine |-> callerOpts]]
  /\ UNCHANGED <<snapVars, fsVars, nodeVars, rdVars, taskVars,
                 ps, sret, convKind, callerOpts, opts, built>>

\* opts is read for the append
ConvRead(t) ==
  /\ cv[t].pc = "append"
  /\ cv' = [cv EXCEPT ![t].pc = "assign",
                      ![t].mine = IF SharedClosure(convKind) THEN opts ELSE @]
  /\ UNCHANGED <<snapVars, fsVars, nodeVars, rdVars, taskVars,
                 ps, sret, convKind, callerOpts, opts, built, ninv>>

\* opts = append(opts, ...): the variable of the closure is assigned
ConvAssign(t) ==
  /\ cv[t].pc = "assign"
  /\ opts' = IF SharedClosure(convKind) THEN appendCompression(cv[t].mine, cv[t].n)
             ELSE opts
  /\ cv' = [cv EXCEPT ![t].pc = "build",
                      ![t].mine = appendCompression(cv[t].mine, cv[t].n)]
  /\ UNCHANGED <<snapVars, fsVars, nodeVars, rdVars, taskVars,
                 ps, sret, convKind, callerOpts, built, ninv>>

\* estargz.Build(uncompressedSR, opts...)
ConvBuild(t) ==
  /\ cv[t].pc = "build"
  /\ built' = Append(built, [n |-> cv[t].n,
                             opts |-> IF SharedClosure(convKind) THEN opts ELSE cv[t].mine])
  /\ cv' = [cv EXCEPT ![t].pc = "ret"]
  /\ UNCHANGED <<snapVars, fsVars, nodeVars, rdVars, taskVars,
                 ps, sret, convKind, callerOpts, opts, ninv>>

ConvReturn(t) ==
  /\ cv[t].pc = "ret"
  /\ cv' = [cv EXCEPT ![t] = CV0]
  /\ UNCHANGED <<snapVars, fsVars, nodeVars, rdVars, taskVars,
                 ps, sret, convKind, callerOpts, opts, built, ninv>>

ConvNext ==
  \/ \E t \in Invokers : ConvEnter(t)
  \/ \E t \in Invokers : ConvRead(t)
  \/ \E t \in Invokers : ConvAssign(t)
  \/ \E t \in Invokers : ConvBuild(t)
  \/ \E t \in Invokers : ConvReturn(t)

ConvSpec == ConvInit /\ [][ConvNext]_vars

\* ===================================================================== claims
\* Vocabulary of the claims, stated without the operators of the model.
FsDir(n) == root \o "/snapshots/" \o ToString(n) \o "/fs"

WorkDir(n) == root \o "/snapshots/" \o ToString(n) \o "/work"

RECURSIVE DecimalValue(_, _)
DecimalValue(ds, acc) ==
  IF ds = <<>> THEN acc ELSE DecimalValue(Tail(ds), 10 * acc + DigitVal(Head(ds)))

\* the characters s spell the integer n in base 10, with an optional sign
Denotes(s, n) ==
  /\ Len(s) >= 1
  /\ LET ds == IF s[1] \in {"+", "-"} THEN Tail(s) ELSE s
     IN /\ Len(ds) >= 1
        /\ \A i \in 1 .. Len(ds) : IsDigit(ds[i])
        /\ n = (IF s[1] = "-" THEN 0 - DecimalValue(ds, 0) ELSE DecimalValue(ds, 0))

HasFsid(k) == filesystemIDLabel \in DOMAIN store[k].labels

\* the filesystem.id label of snapshot k is present and is invalid or names
\* a plugin whose Check on the snapshot's fs directory fails
LayerFails(k, okSet) ==
  /\ HasFsid(k)
  /\ ~\E p \in Plugins :
        /\ Denotes(store[k].labels[filesystemIDLabel], p)
        /\ Check(fuse, p, FsDir(store[k].id), okSet)

LayerInvalid(k) ==
  HasFsid(k) /\ ~\E p \in Plugins : Denotes(store[k].labels[filesystemIDLabel], p)

\* the key whose chain the call checks: Mounts checks key, Prepare and View
\* check parent
CheckKey == IF ret.op = "Mounts" THEN ret.key ELSE ret.parent

CheckedChain == Chain(store, CheckKey)

Bind(src, flag) == [Type |-> "bind", Source |-> src, Options |-> <<flag, "rbind">>]

RECURSIVE LowerDir(_)
LowerDir(k) ==
  IF store[k].parent = "" THEN FsDir(store[k].id)
  ELSE FsDir(store[k].id) \o ":" \o LowerDir(store[k].parent)

RemoteTried == ret.op = "Prepare" /\ ret.tried

SomeMountSucceeded == RemoteTried /\ \E i \in 1 .. NPlugins : ret.outs[i]

EveryMountFailed == RemoteTried /\ \A i \in 1 .. NPlugins : ~ret.outs[i]

\* the store holds a Committed snapshot named target, made from the snapshot
\* this Prepare created, stamped with the index fsid of the plugin mounted
\* on its fs directory
CommittedAsRemote ==
  /\ ret.target \in DOMAIN store
  /\ LET rec == store[ret.target]
     IN /\ rec.kind = KindCommitted
        /\ IDString(rec.id) = ret.id
        /\ filesystemIDLabel \in DOMAIN rec.labels
        /\ rec.labels[filesystemIDLabel][1] \notin {"+", "-"}
        /\ Denotes(rec.labels[filesystemIDLabel], ret.fsid)
        /\ ret.outs[ret.fsid + 1]
        /\ <<ret.fsid, FsDir(rec.id)>> \in fuse

StaysActive ==
  /\ ret.key \in DOMAIN store
  /\ store[ret.key].kind = KindActive
  /\ IDString(store[ret.key].id) = ret.id
  /\ \A k \in DOMAIN store : store[k].kind = KindCommitted => IDString(store[k].id) # ret.id

\* C1 (as stated): whenever Prepare carries the target label and some plugin's
\* Mount succeeds, Prepare returns already-exists and the store holds a
\* Committed snapshot named target labelled with the index of the plugin that
\* mounted it.
C1_Original == SomeMountSucceeded => (ret.err = ErrAlreadyExists /\ CommittedAsRemote)

\* C1 (amended): when some plugin's Mount succeeds and the Commit(target, key)
\* that follows succeeds, Prepare returns already-exists and the store holds
\* the Committed snapshot target stamped with the mounting plugin's index; when
\* that Commit fails, Prepare returns the normal mounts with no error and the
\* snapshot stays Active under key.
C1_Amended ==
  SomeMountSucceeded =>
    IF ret.cerr = ErrNone
    THEN ret.err = ErrAlreadyExists /\ ret.m = <<>> /\ CommittedAsRemote
    ELSE ret.err = ErrNone /\ Len(ret.m) = 1 /\ StaysActive

C1_Witness ==
  SomeMountSucceeded /\ ret.fsid = NPlugins - 1 /\ ret.err = ErrAlreadyExists
  /\ CommittedAsRemote

\* C2: once a remote Prepare has committed the snapshot named target, every
\* later Prepare that carries the same target label returns already-exists.
C2_RepeatedPrepare ==
  (/\ RemoteTried
   /\ ret.target \in DOMAIN store
   /\ store[ret.target].kind = KindCommitted
   /\ TargetOf(store[ret.target].labels) = ret.target
   /\ HasFsid(ret.target)
   /\ IDString(store[ret.target].id) # ret.id)
  => ret.err = ErrAlreadyExists

\* C3: when Prepare carries the target label and every plugin's Mount fails,
\* Prepare returns the normal mounts with no error, the snapshot stays Active
\* under key, unstamped and unmounted, and nothing is committed from it.
C3_FallbackOnAllFail ==
  EveryMountFailed =>
    /\ ret.err = ErrNone
    /\ Len(ret.m) = 1
    /\ ret.m[1].Type \in {"bind", "overlay"}
    /\ StaysActive
    /\ ~HasFsid(ret.key)
    /\ \A p \in Plugins : <<p, FsDir(store[ret.key].id)>> \notin fuse

C3_Witness == EveryMountFailed /\ ret.err = ErrNone /\ StaysActive /\ ret.parent # ""

\* C4: prepareRemoteSnapshot calls Mount on the plugins in increasing index
\* order starting at 0, stops at the first success and returns its index;
\* every plugin called before it failed and no later plugin is called.
C4_MountOrder ==
  RemoteTried =>
    LET n == Len(ret.calls)
    IN /\ n >= 1
       /\ \A i \in 1 .. n : ret.calls[i] = i - 1
       /\ \A i \in 1 .. (n - 1) : ~ret.outs[i]
       /\ IF ret.outs[n] THEN ret.fsid = n - 1
          ELSE n = NPlugins /\ ret.fsid = 0 - 1

C4_Witness ==
  RemoteTried /\ ret.fsid = 0 /\ Len(ret.calls) = 1 /\ \A i \in 1 .. NPlugins : ret.outs[i]

\* C5: the availability check returns false exactly when some snapshot of the
\* checked chain has a filesystem.id label that is invalid or names a plugin
\* whose Check fails; snapshots without the label never make it false.
C5_Availability ==
  ret.checked =>
    (ret.avail <=> ~\E i \in 1 .. Len(CheckedChain) : LayerFails(CheckedChain[i], ret.okSet))

C5_Witness ==
  /\ ret.op = "Mounts" /\ ret.checked /\ ~ret.avail
  /\ Len(CheckedChain) >= 2
  /\ ~HasFsid(CheckedChain[1])
  /\ \E i \in 2 .. Len(CheckedChain) : LayerInvalid(CheckedChain[i])

\* C6: when the availability check fails for any layer of the chain, Mounts,
\* Prepare and View return Unavailable and no mount.
C6_UnavailableNoMount ==
  (/\ ret.op \in {"Mounts", "Prepare", "View"}
   /\ ret.checked
   /\ \E i \in 1 .. Len(CheckedChain) : LayerFails(CheckedChain[i], ret.okSet))
  => (ret.err = ErrUnavailable /\ ret.m = <<>>)

C6_Witness ==
  /\ ret.op = "Mounts" /\ ret.checked
  /\ Len(CheckedChain) = 3
  /\ ~LayerFails(CheckedChain[1], ret.okSet)
  /\ LayerFails(CheckedChain[2], ret.okSet) /\ ~LayerInvalid(CheckedChain[2])
  /\ ~LayerFails(CheckedChain[3], ret.okSet)
  /\ ret.err = ErrUnavailable

\* C7: the mount returned for an available snapshot: no parent, a bind of its
\* own fs directory, ro for a View and rw otherwise; Active with parents, one
\* overlay with workdir, upperdir and the parents' fs paths joined by ":" in
\* ParentIDs order as lowerdir; a View with one parent, a ro bind of the
\* parent's fs directory.
C7_MountShape ==
  (ret.op \in {"Mounts", "Prepare", "View"} /\ ret.err = ErrNone /\ ret.key \in DOMAIN store) =>
    LET rec == store[ret.key]
        n == Len(Chain(store, rec.parent))
    IN /\ n = 0 =>
            ret.m = <<Bind(FsDir(rec.id), IF rec.kind = KindView THEN "ro" ELSE "rw")>>
       /\ (rec.kind = KindActive /\ n >= 1) =>
            ret.m = <<[Type |-> "overlay", Source |-> "overlay",
                       Options |-> <<"workdir=" \o WorkDir(rec.id),
                                     "upperdir=" \o FsDir(rec.id),
                                     "lowerdir=" \o LowerDir(rec.parent)>>]>>
       /\ (rec.kind = KindView /\ n = 1) =>
            ret.m = <<Bind(FsDir(store[rec.parent].id), "ro")>>

C7_Witness ==
  /\ ret.op = "Mounts" /\ ret.err = ErrNone /\ ret.key \in DOMAIN store
  /\ store[ret.key].kind = KindActive
  /\ Len(Chain(store, store[ret.key].parent)) = 2

\* C8: Commit walks the upper directory exactly when the stored record of key
\* has no target label; with the label nothing is walked and the committed
\* usage is zero, without it the committed usage is the measured one.
C8_UsageOnlyWithoutTarget ==
  [][/\ (ret'.op = "Commit" /\ ret.op = "idle" /\ ret'.key \in DOMAIN store) =>
          LET had == targetSnapshotLabel \in DOMAIN store[ret'.key].labels
          IN /\ ret'.walked <=> ~had
             /\ (ret'.err = ErrNone) =>
                  store'[ret'.name].usage = (IF had THEN 0 ELSE ret'.usage)
             /\ (ret'.err = ErrNone /\ ~had) => ret'.usage >= 1
     /\ (ret'.op = "Prepare" /\ ret.op = "idle" /\ ret'.name # "") =>
          (~ret'.walked /\ store'[ret'.name].usage = 0)]_vars

C8_Witness ==
  /\ ret.op = "Commit" /\ ret.err = ErrNone /\ ~ret.walked
  /\ store[ret.name].usage = 0

\* C9: with asynchronous removal, a successful Remove makes the key unknown to
\* Stat and free for a new Prepare, and unmounts and deletes nothing; an orphan
\* directory disappears only in a Cleanup.
C9_AsyncRemove ==
  [][/\ (asyncRemove /\ ret.op = "idle" /\ ret'.op = "Remove" /\ ret'.err = ErrNone) =>
          /\ ret'.key \in DOMAIN store
          /\ StatErr(store', ret'.key) = ErrNotFound
          /\ CreateSnapshotErr(store', ret'.key, "") = ErrNone
          /\ IDString(store[ret'.key].id) \in dirs => IDString(store[ret'.key].id) \in dirs'
          /\ dirs' = dirs
          /\ fuse' = fuse
          /\ ret'.unmounts = {} /\ ret'.removes = {}
     /\ (asyncRemove /\ \E d \in dirs \ dirs' : d \notin IDs(store)) => ret'.op = "Cleanup"]_vars

C9_Witness ==
  /\ asyncRemove /\ ret.op = "Remove" /\ ret.err = ErrNone
  /\ ret.key \notin DOMAIN store
  /\ \E d \in dirs : d \notin IDs(store) /\ \E p \in Plugins : <<p, upperPath(d)>> \in fuse

\* C10: with synchronous removal, a Remove that fails (storage.Remove, the
\* directory listing or the transaction commit) unmounts and deletes nothing
\* and leaves the store as it was; a Remove that succeeds handles exactly the
\* directories that are orphans once its transaction has committed, and a
\* directory that could not be deleted does not make it fail.
C10_SyncRemove ==
  [][(~asyncRemove /\ ret.op = "idle" /\ ret'.op = "Remove") =>
       /\ (ret'.err # ErrNone) =>
            /\ store' = store /\ dirs' = dirs /\ fuse' = fuse
            /\ ret'.unmounts = {} /\ ret'.removes = {}
       /\ (ret'.err = ErrNone) =>
            /\ ret'.key \in DOMAIN store /\ ret'.key \notin DOMAIN store'
            /\ ret'.removes = {d \in dirs : d \notin IDs(store')}
            /\ dirs' \subseteq dirs
            /\ (dirs \ dirs') \subseteq ret'.removes
       /\ (ret'.removes \cap dirs' # {}) => ret'.err = ErrNone]_vars

C10_Witness ==
  /\ ~asyncRemove /\ ret.op = "Remove" /\ ret.err = ErrNone
  /\ ret.removes \cap dirs # {}

\* the entries of snapshots/ that are the id of no snapshot of the store
Orphans == {d \in dirs : \A k \in DOMAIN store : ToString(store[k].id) # d}

OrphanFs(d) == root \o "/snapshots/" \o d \o "/fs"

\* C11: a Cleanup whose listing succeeds handles exactly the entries of
\* snapshots/ that are the id of no snapshot: it unmounts <dir>/fs of each and
\* removes each; a directory whose removal fails stays, the other orphans are
\* still unmounted and removed, and Cleanup returns no error; the store is
\* not touched.
C11_Cleanup ==
  [][(ret.op = "idle" /\ ret'.op = "Cleanup") =>
       /\ (ret'.err = ErrNone) =>
            /\ ret'.removes = Orphans
            /\ ret'.unmounts = {OrphanFs(d) : d \in Orphans}
            /\ fuse' = {e \in fuse : \A d \in Orphans : e[2] # OrphanFs(d)}
            /\ dirs' \subseteq dirs
            /\ (dirs \ dirs') \subseteq Orphans
            /\ Cardinality(Orphans \cap dirs') <= 1
       /\ (ret'.err # ErrNone) =>
            /\ dirs' = dirs /\ fuse' = fuse
            /\ ret'.removes = {} /\ ret'.unmounts = {}
       /\ (ret'.removes \cap dirs' # {}) => ret'.err = ErrNone
       /\ store' = store /\ seq' = seq]_vars

C11_Witness ==
  /\ ret.op = "Cleanup" /\ ret.err = ErrNone
  /\ Cardinality(ret.removes) >= 2
  /\ Cardinality(ret.removes \cap dirs) = 1
  /\ \E d \in ret.removes \ dirs : OrphanFs(d) \in ret.unmounts
  /\ dirs \ ret.removes # {}

\* ---- the stargz filesystem
CheckOfRegistered ==
  fsret.op = "idle" /\ fsret'.op = "Check" /\ fsret'.mountpoint \in DOMAIN conn

\* seconds since the lastCheck of the mountpoint the Check is about
Elapsed == clock - conn[fsret'.mountpoint].lastCheck

\* the interval the configuration stands for, in seconds
ConfiguredInterval == IF config < 0 THEN 0 ELSE IF config = 0 THEN 60 ELSE config

\* C12 (as stated): a Check on a registered mountpoint sends the probe if and
\* only if the time since lastCheck is at least layerValidInterval, and
\* otherwise succeeds without a request; a negative configuration makes every
\* Check send the probe and a configuration of 0 means 60 seconds.
C12_Original ==
  [][CheckOfRegistered =>
       /\ fsret'.sent <=> (Elapsed >= layerValidInterval)
       /\ ~fsret'.sent => fsret'.err = ErrNone
       /\ config < 0 => fsret'.sent
       /\ config = 0 => layerValidInterval = 60]_vars

\* C12 (amended): a Check on a registered mountpoint attempts the probe if and
\* only if the time since lastCheck is at least the configured interval (0
\* for a negative configuration, 60 seconds for 0), and otherwise succeeds
\* without a request and without touching the record; the attempt sends the
\* request exactly when a request can be built from the stored URL, and when
\* none can be built Check returns an error without sending.
C12_Amended ==
  [][CheckOfRegistered =>
       LET due == Elapsed >= ConfiguredInterval
           url == conn[fsret'.mountpoint].url
       IN /\ fsret'.expired <=> due
          /\ fsret'.sent <=> (due /\ url # "unparseable")
          /\ ~due => (fsret'.err = ErrNone /\ conn' = conn)
          /\ (due /\ url = "unparseable") => fsret'.err # ErrNone
          /\ layerValidInterval = ConfiguredInterval]_vars

C12_Witness ==
  /\ fsret.op = "Check" /\ fsret.sent /\ config = 0
  /\ conn[fsret.mountpoint].lastCheck = 60

\* C13: a Check that sends the probe succeeds if and only if the transport
\* answers with status 200 or 206; a transport error or any other status
\* makes it fail.  A Check on a mountpoint without connection record fails
\* and sends nothing.
C13_ProbeResult ==
  [][(fsret.op = "idle" /\ fsret'.op = "Check") =>
       /\ fsret'.sent =>
            (fsret'.err = ErrNone <=> (~fsret'.rt.err /\ fsret'.rt.status \in {200, 206}))
       /\ (fsret'.mountpoint \notin DOMAIN conn) =>
            (fsret'.err # ErrNone /\ ~fsret'.sent /\ conn' = conn)]_vars

C13_Witness ==
  /\ fsret.op = "Check" /\ fsret.sent /\ fsret.err # ErrNone
  /\ ~fsret.rt.err /\ fsret.rt.status = 302

\* C14: a Check whose probe failed leaves the connection's lastCheck as it
\* was.
C14_LastCheckOnSuccess ==
  [][(CheckOfRegistered /\ fsret'.sent /\ fsret'.err # ErrNone) =>
       conn'[fsret'.mountpoint].lastCheck = conn[fsret'.mountpoint].lastCheck]_vars

\* C15: OnUnmount removes the connection record of its mountpoint and leaves
\* every other record as it was; from then on a Check on the mountpoint
\* fails, and only a Mount on that mountpoint registers it again.
C15_OnUnmount ==
  [][/\ (fsret.op = "idle" /\ fsret'.op = "OnUnmount") =>
          /\ fsret'.mountpoint \in DOMAIN conn
          /\ DOMAIN conn' = DOMAIN conn \ {fsret'.mountpoint}
          /\ \A m \in DOMAIN conn' : conn'[m] = conn[m]
     /\ (fsret.op = "idle" /\ fsret'.op = "Check" /\ fsret'.mountpoint \notin DOMAIN conn) =>
          fsret'.err # ErrNone
     /\ \A m \in DOMAIN conn' \ DOMAIN conn :
          fsret'.op = "Mount" /\ fsret'.mountpoint = m]_vars

C15_Witness ==
  /\ fsret.op = "OnUnmount"
  /\ fsret.mountpoint \notin DOMAIN conn
  /\ DOMAIN conn # {}

\* C16: when resolve returns, no transport whose probe failed during the call
\* is in the transport cache, whether resolve succeeded or failed.
C16_FailedTransportDropped ==
  (fsret.op = "Mount" /\ fsret.resolved) =>
    \A r \in DOMAIN pullTransports : pullTransports[r] \notin fsret.failed

\* ------------------------------------------------------ a mounted layer
\* A listing of a directory of the TOC has just been returned.
Listed == nret.op = "OpenDir" /\ node.kind = "node"

ListedEntries == {nret.ents[i] : i \in 1 .. Len(nret.ents)}

\* the TOC children of the listed directory that carry the whiteout prefix
WhiteoutChildren == {w \in Children(toc, node.e) : HasPrefix(w, whiteoutPrefix)}

\* the TOC child named x is listed under the name x
ListedUnderOwnName(x) ==
  /\ x \in Children(toc, node.e)
  /\ \E ent \in ListedEntries : ent.Name = x /\ ent.Ino = EntryName(node.e, x)

\* a character device named x is listed
ListedAsWhiteout(x) == \E ent \in ListedEntries : ent.Name = x /\ ent.Mode = "chr"

\* C17 as stated: OpenDir returns no entry whose name begins with ".wh.", and
\* for each TOC child ".wh.X" it returns a character device named X if and
\* only if no TOC child is listed under the name X.
C17_Original ==
  Listed =>
    /\ \A ent \in ListedEntries : ~HasPrefix(ent.Name, whiteoutPrefix)
    /\ \A w \in WhiteoutChildren :
         ListedAsWhiteout(TrimPrefix(w)) <=> ~ListedUnderOwnName(TrimPrefix(w))

\* C17 as the code has it: OpenDir lists no TOC child ".wh.X" under its own
\* name and nothing at all for the child ".wh..wh..opq"; for each other TOC
\* child ".wh.X" it returns a character device named X if and only if no TOC
\* child is listed under the name X. An entry whose name begins with ".wh."
\* is always such a character device, that of a child ".wh..wh.Y".
C17_Amended ==
  Listed =>
    /\ \A w \in WhiteoutChildren : ~ListedUnderOwnName(w)
    /\ \A ent \in ListedEntries : ent.Ino # EntryName(node.e, whiteoutOpaqueDir)
    /\ \A w \in WhiteoutChildren \ {whiteoutOpaqueDir} :
         /\ ListedAsWhiteout(TrimPrefix(w)) <=> ~ListedUnderOwnName(TrimPrefix(w))
         /\ ListedAsWhiteout(TrimPrefix(w)) =>
              \E ent \in ListedEntries :
                ent.Name = TrimPrefix(w) /\ ent.Mode = "chr" /\ ent.Ino = EntryName(node.e, w)
    /\ \A ent \in ListedEntries :
         HasPrefix(ent.Name, whiteoutPrefix) =>
           ent.Mode = "chr" /\ <<whiteoutPrefix>> \o ent.Name \in WhiteoutChildren

\* The root is listed with a whiteout that has a sibling of its name, one
\* that has none, and the opaque marker.
C17_Witness ==
  /\ Listed
  /\ node.e = ""
  /\ {<<"a">>, <<whiteoutPrefix, "a">>, <<whiteoutPrefix, "b">>, whiteoutOpaqueDir}
       \subseteq toc.rootChildren
  /\ ListedAsWhiteout(<<"b">>)
  /\ ~ListedAsWhiteout(<<"a">>)

\* what OpenDir of the current directory lists
Listing ==
  IF node.kind = "state" THEN stateOpenDir ELSE openDir(toc, node)

\* the kind of a listed entry, in the words of the kinds of nodes
KindOfEntry(ent) ==
  IF ent.Mode = "chr" THEN "whiteout"
  ELSE IF ent.Ino = "state" THEN "state"
  ELSE IF ent.Ino = "statFile" THEN "statFile"
  ELSE "node"

\* C18: a fresh Lookup(name) in a directory resolves to a node if and only
\* if OpenDir of that directory lists an entry with that name, and the node
\* is of the kind of the listed entry.
C18_LookupInverse ==
  nret.op = "Lookup" =>
    /\ nret.status = "OK" <=> \E ent \in Listing : ent.Name = nret.name
    /\ nret.status = "OK" =>
         \A ent \in Listing : ent.Name = nret.name => KindOfEntry(ent) = nret.child.kind

\* the TOC entry of the current directory has the child ".wh..wh..opq"
HasOpaqueMarker == whiteoutOpaqueDir \in Children(toc, node.e)

\* C19: for every directory of the mount, the root included, getxattr of
\* trusted.overlay.opaque returns "y" and listxattr includes the name
\* whenever the directory's TOC entry has the child ".wh..wh..opq"; without
\* that child and without that xattr in the TOC entry, getxattr returns
\* the no-such-attribute error.
C19_OpaqueXattr ==
  (node.kind = "node" /\ IsDir(node.e)) =>
    /\ (nret.op = "GetXAttr" /\ nret.attribute = opaqueXattr /\ HasOpaqueMarker) =>
         nret.status = "OK" /\ nret.value = opaqueXattrValue
    /\ (nret.op = "ListXAttr" /\ HasOpaqueMarker) =>
         \E i \in 1 .. Len(nret.attrs) : nret.attrs[i] = opaqueXattr
    /\ (/\ nret.op = "GetXAttr"
        /\ nret.attribute = opaqueXattr
        /\ ~HasOpaqueMarker
        /\ opaqueXattr \notin DOMAIN toc.attr.Xattrs) =>
         nret.status = "ENOATTR"

\* C20: Access with mode 0 returns OK for every caller on every node (TOC
\* nodes, the state directory, the state file), and Access on a TOC node
\* returns OK for a caller with uid 0 whatever the mode and the entry's
\* permission bits.
C20_Access ==
  nret.op = "Access" =>
    /\ nret.mode = 0 => nret.status = "OK"
    /\ (node.kind = "node" /\ nret.uid = 0) => nret.status = "OK"

\* uid 0 asked for read, write and execute on an entry without any
\* permission bit and owned by someone else.
C20_Witness ==
  /\ nret.op = "Access"
  /\ node.kind = "node"
  /\ nret.uid = 0
  /\ nret.mode = 7
  /\ toc.attr.perm = 0
  /\ toc.attr.Uid # 0
  /\ nret.status = "OK"

\* the 3-bit field of the entry's permission bits Access has to look at:
\* the owner's when the caller's uid is the entry's, else the group's when
\* the caller's gid is the entry's, else the others'
SelectedField ==
  IF toc.attr.Uid = nret.uid THEN (toc.attr.perm \div 64) % 8
  ELSE IF toc.attr.Gid = nret.gid THEN (toc.attr.perm \div 8) % 8
  ELSE toc.attr.perm % 8

\* the permissions (4 read, 2 write, 1 execute) a mask asks for
Requested(mask) == {b \in {1, 2, 4} : (mask \div b) % 2 = 1}

\* C21: for a caller with uid # 0 and a mode # 0, Access on a TOC node
\* returns OK only if every requested permission bit is set in the field
\* selected by the uid and gid match; otherwise it returns EPERM.
C21_AccessBits ==
  (nret.op = "Access" /\ node.kind = "node" /\ nret.uid # 0 /\ nret.mode # 0) =>
    /\ nret.status \in {"OK", "EPERM"}
    /\ nret.status = "OK" <=> Requested(nret.mode) \subseteq Requested(SelectedField)

\* ------------------------------------------------------ the URL reader
\* this step is a read of the state file
StatReadStep == rhist.op = "idle" /\ rhist'.op = "StatRead"

\* this step is a node.Open that fails
OpenFailStep == rhist.op = "idle" /\ rhist'.op = "Open" /\ rhist'.status = "EIO"

\* this step is the GET with which the file.Read of reader r fails
ReadFailStep(r) == rd[r].pc = "get" /\ rd'[r].pc = "done" /\ rd'[r].err # ""

\* C22: when opening or reading a file fails the kernel gets EIO and the
\* failure is recorded: every later read of the state file carries an error
\* field equal to the message of the most recent such failure, and the
\* field is absent only if there has been none since the mount.
C22_ErrorReported ==
  [][/\ StatReadStep =>
          LET j == Marshal(statJSON')
          IN IF rhist.lastFailure = "" THEN "error" \notin DOMAIN j
             ELSE "error" \in DOMAIN j /\ j.error = rhist.lastFailure
     /\ OpenFailStep => rhist'.lastFailure = "failed to open node: error"
     /\ \A r \in 1 .. NReaders :
          /\ ReadFailStep(r) =>
               /\ rd'[r].status = "EIO"
               /\ rhist'.lastFailure = "failed to read node: " \o rd'[r].err
          /\ (rd[r].pc \in {"fetch", "get"} /\ rd'[r].pc = "done" /\ rd'[r].err = "") =>
               rd'[r].status = "OK"]_vars

\* The state file is read after an Open failed and, later, a Read failed:
\* it carries the message of the Read.
C22_Witness ==
  /\ rhist.op = "StatRead"
  /\ "error" \in DOMAIN Marshal(statJSON)
  /\ Marshal(statJSON).error = "failed to read node: error"
  /\ rhist.lastFailure = "failed to read node: error"

\* C23: across successive reads of the state file fetchedPercent never
\* decreases, and in every read it is 100*fetchedSize/size, fetchedSize
\* being the value of the fetched-bytes counter at that time.
C23_FetchedPercent ==
  [][StatReadStep =>
       LET j == Marshal(statJSON')
       IN /\ j.fetchedSize = ur.fetchedSize
          /\ j.fetchedPercent[1] * j.size = 100 * j.fetchedSize * j.fetchedPercent[2]
          /\ j.fetchedPercent[1] * statJSON.FetchedPercent[2]
               >= statJSON.FetchedPercent[1] * j.fetchedPercent[2]]_vars

\* The state file is read when the whole layer has been fetched: 100 percent.
C23_Witness ==
  /\ rhist.op = "StatRead"
  /\ statJSON.FetchedSize = LayerSize
  /\ ur.fetchedSize = LayerSize
  /\ statJSON.FetchedPercent[1] = 100 * statJSON.FetchedPercent[2]

\* a ReadAt of reader r has returned without error
ReadDone(r) == rd[r].pc = "done" /\ rd[r].err = ""

\* C24: whatever the chunk size, the alignment of the offset and the
\* contents of the chunk cache, the bytes ReadAt(dst, off) returns are
\* origin[off, off+len(dst)) cut at the size of the object; a read that
\* crosses the final partial chunk returns exactly size - off bytes.
C24_ReadAt ==
  \A r \in 1 .. NReaders :
    ReadDone(r) =>
      /\ rd[r].buf = [i \in 1 .. (Min(rd[r].off + rd[r].n, LayerSize) - rd[r].off) |->
                        Origin[rd[r].off + i]]
      /\ rd[r].off + rd[r].n > LayerSize => Len(rd[r].buf) = LayerSize - rd[r].off

\* A read of four bytes two bytes before the end, with chunks of two bytes
\* and a chunk missing in the cache, has returned two bytes before the
\* whole layer was fetched.
C24_Witness ==
  \E r \in 1 .. NReaders :
    /\ ReadDone(r)
    /\ ur.chunkSize = 2
    /\ rd[r].off = LayerSize - 2
    /\ rd[r].n = 4
    /\ Len(rd[r].buf) = 2
    /\ rd[r].absent
    /\ ur.fetchedSize < LayerSize

\* this step is a GET of reader r for its current chunk
GetStep(r) == rd[r].pc = "get" /\ rd'[r] # rd[r]

\* the cache is a directory cache with room for every chunk of the layer
Roomy ==
  /\ rcfg.HTTPCacheType # memoryCacheType
  /\ maxEntry(rcfg) > LastChunk(ur, 0, LayerSize)

\* C25 as stated: every GET for a chunk comes from a reader that missed the
\* chunk before it was added to the cache for the first time (so there are
\* no more GETs than such readers); a chunk already added is not fetched
\* again.
C25_Original == [][\A r \in 1 .. NReaders : GetStep(r) => rd[r].first]_vars

\* C25 as the reader has it: every GET for a chunk comes from a reader
\* whose lookup found the chunk absent from the cache; with a directory
\* cache that has room for every chunk, it comes from a reader that missed
\* the chunk before it was first added. A chunk the LRU bound has evicted
\* is fetched again.
C25_Amended ==
  [][\A r \in 1 .. NReaders :
       GetStep(r) =>
         /\ rd[r].absent
         /\ Roomy => rd[r].first]_vars

\* Two readers have missed the same chunk and one of them has added it: the
\* other is about to fetch it too; the cache has room for the whole layer.
C25_Witness ==
  /\ Roomy
  /\ rd[1].pc = "get"
  /\ rd[1].first
  /\ rd[1].c \in Cached(httpCache)
  /\ rd[2].pc = "done"
  /\ rd[2].c = rd[1].c

\* C27: whichever cache backend is configured, the number of entries the
\* blob cache holds never exceeds the configured lru_max_entry (5000 when
\* the option is 0), after any sequence of Add operations.
C27_CacheBound == Len(httpCache.keys) <= maxEntry(rcfg)

\* ------------------------------------------------- calls in progress
BgStartStep(mp) == bg[mp].st = "waiting" /\ bg'[mp].st = "running"

BgResumeStep(mp) == bg[mp].st = "paused" /\ bg'[mp].st = "running"

BgRequestStep(mp) == bg[mp].st = "running" /\ bg'[mp].st = "fetching"

\* C26: a background fetch starts, resumes or sends a request only in a state
\* with no prioritized task in progress, and it starts or resumes only when
\* the count has been 0 for the whole quiescence period.
C26_Quiescence ==
  [][\A mp \in Mountpoints :
       /\ BgStartStep(mp) \/ BgResumeStep(mp) => btm.count = 0 /\ btm.quiet >= Q
       /\ BgRequestStep(mp) => btm.count = 0]_vars

\* a prioritized task is in progress while one background fetch waits to
\* start with a free permit and another one has yielded at its checkpoint
C26_Witness ==
  \E m1, m2 \in Mountpoints :
    /\ btm.count > 0 /\ btm.permits > 0
    /\ bg[m1].st = "waiting"
    /\ bg[m2].st = "paused"

\* C28: a Mount that returns no error has started the background fetch of
\* its layer, the fetch that is to run once the prioritized tasks are over.
C28_MountStartsFetch ==
  \A t \in Threads :
    th[t].op = "Mount" /\ th[t].pc = "ret" /\ th[t].err = ErrNone
      => bg[th[t].mp].st # "none"

\* When the prioritized tasks stop and no request of the fetch fails, every
\* background fetch that Mount started ends with all chunks fetched.
C28_FetchCompletes ==
  (<>[](btm.count = 0)) /\ [](\A mp \in Mountpoints : bg[mp].st # "failed")
    => \A mp \in Mountpoints :
         (bg[mp].st = "waiting") ~> (bg[mp].st = "done" /\ bg[mp].next = BgChunks)

\* A failure of the background fetch changes nothing but the fetch: the
\* connection record and the FUSE server of the layer stay.
C28_FailureIsolated ==
  [][\A mp \in Mountpoints :
       bg[mp].st # "failed" /\ bg'[mp].st = "failed"
         => /\ UNCHANGED <<th, connMu, tconn>>
            /\ bg'[mp].served = bg[mp].served]_vars

\* C29: no call is at a registry request while it holds the lock of the
\* connection map.
C29_NoIOUnderLock == \A t \in Threads : th[t].pc \in IOSteps => connMu # t

\* a Mount of another mountpoint waits for the lock that a Check holds during
\* its request
C29_Blocked ==
  \E t, u \in Threads :
    /\ th[t].op = "Check" /\ th[t].pc = "roundtrip" /\ connMu = t
    /\ th[u].op = "Mount" /\ th[u].pc = "conn" /\ th[u].mp # th[t].mp

InProgress == {t \in Threads : th[t].op \in {"Mount", "Check"}}

\* C30: the count of active prioritized tasks is the number of Mount and
\* Check calls in progress, 0 when there is none.
C30_Bracket == btm.count = Cardinality(InProgress)

\* one call has returned while a Mount is on an error return and has not
\* run its deferred calls yet
C30_Witness ==
  \E t, u \in Threads :
    /\ th[t].op = "Mount" /\ th[t].pc = "ret" /\ th[t].err = FsErr
    /\ th[u].op = "idle"
    /\ tconn # {}
    /\ btm.count = 1

\* ------------------------------------------------- the steps of Mount
PrefetchFailed(t) == th[t].op = "Mount" /\ th[t].pc = "ret" /\ th[t].at = "prefetch"

\* C31: with the prefetch enabled, the background fetch of a layer is started
\* only after the prefetch range of the layer has been read; a Mount whose
\* prefetch failed returns the error with no background fetch started and no
\* FUSE server created.
C31_PrefetchFirst ==
  /\ ~noprefetch => \A mp \in Mountpoints : bg[mp].st # "none" => bg[mp].prefetched
  /\ \A t \in Threads :
       PrefetchFailed(t)
         => th[t].err # ErrNone /\ bg[th[t].mp].st = "none" /\ ~bg[th[t].mp].served

\* one Mount returns from a failed prefetch while the layer of another one
\* has its prefetch range read and its background fetch started
C31_Witness ==
  /\ ~noprefetch
  /\ \E t \in Threads : PrefetchFailed(t)
  /\ \E mp \in Mountpoints : bg[mp].st # "none" /\ bg[mp].prefetched

\* ------------------------------------------------- the state directory
OwnerField(nodeMode) == Shr(nodeMode, 6)

StateModeOf(n) == IF n.kind = "state" THEN stateMode ELSE statFileMode

\* C32: Access on the state directory and on the state file gives uid 0 the
\* permissions of the owner field (r-x on the directory, r-- on the file)
\* and gives EPERM to every other caller that requests a nonzero mode.
C32_StateAccess ==
  nret.op = "Access" /\ node.kind \in {"state", "statFile"}
    => nret.status =
         IF nret.mode = 0 THEN "OK"
         ELSE IF nret.uid = 0
                 /\ BitAnd(nret.mode, OwnerField(StateModeOf(node))) = nret.mode
         THEN "OK"
         ELSE "EPERM"

RootListed == nret.op = "OpenDir" /\ node = RootNode

\* C33: for every table of contents the listing of the layer root has no
\* entry named .prefetch.landmark, none named .wh..wh..opq and exactly one
\* named .stargz-snapshotter, the synthesized state directory, and it is
\* sorted by name.
C33_RootListing ==
  RootListed =>
    LET ents == nret.ents
        I == 1 .. Len(ents)
    IN /\ \A i \in I : ents[i].Name \notin {PrefetchLandmark, whiteoutOpaqueDir}
       /\ Cardinality({i \in I : ents[i].Name = stateDirName}) = 1
       /\ \A i \in I : ents[i].Name = stateDirName
                         => ents[i].Mode = "dir" /\ ents[i].Ino = "state"
       /\ \A i, j \in I : i < j => NameRank(ents[i].Name) <= NameRank(ents[j].Name)

\* ------------------------------------------------- the source providers
Succeeds(i) == ps[i].err = ErrNone

\* C34: the combined provider consults the providers in order and returns
\* the sources of the first one that succeeds, consulting no later one; it
\* returns an error only when every provider fails, and the error holds the
\* error of every provider.
C34_FirstSuccess ==
  sret.op = "GetSources" =>
    /\ \A k \in 1 .. Len(ps) :
         Succeeds(k) /\ (\A i \in 1 .. k - 1 : ~Succeeds(i))
           => sret.src = ps[k].src /\ sret.allErr = <<>> /\ sret.consulted = k
    /\ sret.allErr # <<>>
         => /\ \A i \in 1 .. Len(ps) : ~Succeeds(i)
            /\ sret.allErr = [i \in 1 .. Len(ps) |-> ps[i].err]
    /\ (\A i \in 1 .. Len(ps) : ~Succeeds(i)) /\ ps # <<>> => sret.allErr # <<>>

\* the second of three providers answers after the first has failed
C34_Witness ==
  /\ sret.op = "GetSources"
  /\ Len(ps) = 3
  /\ ~Succeeds(1) /\ Succeeds(2) /\ Succeeds(3) /\ ps[2].src # ps[3].src
  /\ sret.src = ps[2].src

\* ------------------------------------------------- the layer converter
\* C38: the options captured when the ConvertFunc was made stay as they
\* were, and every invocation hands estargz.Build the options of the caller
\* followed by its one compression option.
C38_OptsUnchanged ==
  /\ SharedClosure(convKind) => opts = callerOpts
  /\ \A i \in 1 .. Len(built) :
       built[i].opts = Append(callerOpts, WithCompression(built[i].n))

\* ------------------------------------------------- a Mount that fails
\* C36: a Mount that returns an error has added no connection record for
\* its mountpoint, at whichever statement it failed.
C36_FailedMountNoRecord ==
  \A t \in Threads :
    th[t].op = "Mount" /\ th[t].pc = "ret" /\ th[t].err # ErrNone
      => th[t].mp \notin tconn

\* ------------------------------------------------- the fallback of Prepare
PluginMounted(id) == \E f \in Plugins : <<f, upperPath(id)>> \in fuse

\* C35: when Prepare returns mounts and no error, no plugin has a layer
\* mounted on the fs directory of the snapshot it prepared.
C35_FallbackUnmounted ==
  ret.op = "Prepare" /\ ret.err = ErrNone => ~PluginMounted(ret.id)

\* C37: a Commit skips the measurement of the upper directory only for a
\* snapshot that a plugin has mounted; a snapshot that carries the target
\* label but was left to the conventional path is committed with the usage
\* measured.
C37_UsageSkippedOnlyIfMounted ==
  ret.op = "Commit" /\ ret.err = ErrNone /\ ~ret.walked
    => PluginMounted(IDString(store[ret.name].id))

====
